---- MODULE Spec2Model ----
(***************************************************************************)
(* A model of the postinstall runner of update_engine                      *)
(* (payload_consumer/postinstall_runner_action.cc) together with the part  *)
(* of its environment it acts on: the filesystems mounted at               *)
(* fs_mount_dir_, the child process of the current partition, and the      *)
(* boot-control / hardware / dynamic-partition calls it makes.             *)
(*                                                                         *)
(* The runner lives on a single-threaded message loop: each handler runs   *)
(* to completion.  A handler is therefore ONE action of the model.  Since  *)
(* a handler calls into the environment several times (mount, umount,      *)
(* exec, FinishUpdate, ...) and every such call may succeed or fail, a     *)
(* handler is written as an operator from a state record to the SET of     *)
(* state records it can end in; the action picks one of them.  The calls   *)
(* a handler makes are appended, in order, to the history variable log.    *)
(***************************************************************************)
EXTENDS Integers, Sequences, FiniteSets, TLC

(***************************************************************************)
(* Bounds of the model.                                                    *)
(***************************************************************************)
\* Largest number of partitions in an install plan.
MaxPartitions == 2
\* Progress fractions are multiples of 1/FracDen.
FracDen == 2
\* Largest number of lines one readable event of the status pipe delivers.
MaxLines == 1
\* Largest manifest and largest embedded metadata signature, in bytes, of
\* the payloads that carry their metadata.
MaxManifestSize == 1
MaxSignatureSize == 1
\* Largest of the small slot numbers a name is asked for.
MaxSlot == 100
\* Largest number of slots the fake boot control is given.
MaxNumSlots == 2
\* Largest number of bytes a child writes to its status pipe.
MaxStream == 3
\* Size of the read buffer of OnProgressFdReady, which is 1024 in the
\* program.
BufSize == 2

(***************************************************************************)
(* Program constants.                                                      *)
(***************************************************************************)
\* ErrorCode values the runner delivers (common/error_code.h names).
kSuccess == "kSuccess"
kPostInstallMountError == "kPostInstallMountError"
kPostinstallRunnerError == "kPostinstallRunnerError"
kPostinstallBootedFromFirmwareB == "kPostinstallBootedFromFirmwareB"
kPostinstallFirmwareRONotUpdatable == "kPostinstallFirmwareRONotUpdatable"
kPostinstallPowerwashError == "kPostinstallPowerwashError"
kUpdatedButNotActive == "kUpdatedButNotActive"

\* fs_mount_dir_ under __ANDROID__, as a sequence of characters.
fs_mount_dir_ == <<"/", "p", "o", "s", "t", "i", "n", "s", "t", "a", "l", "l">>

\* Exit codes a postinstall script is let to end with.
ExitCodes == {0, 3, 4, 7}

\* The postinstall_path values of the plans: none, a relative path and an
\* absolute path.
PathEmpty == <<>>
PathRelative == <<"b", "i", "n", "/", "p">>
PathAbsolute == <<"/", "b", "i", "n", "/", "p">>
PostinstallPaths == {PathEmpty, PathRelative, PathAbsolute}
\* "../x", a relative path that leaves the directory it is joined to.
PathDotDot == <<".", ".", "/", "x">>

VARIABLES
  install_plan_,                 \* InstallPlan the action works on
  current_partition_,            \* cursor into install_plan_.partitions (0-based)
  partition_weight_,             \* weight of each partition
  total_weight_,
  accumulated_weight_,
  current_command_,              \* pid of the running child, 0 if none
  progress_fd_,                  \* status pipe descriptor, -1 if none
  progress_controller_,          \* TRUE iff the fd watcher is registered
  progress_buffer_,              \* bytes read and not yet split into lines
  is_current_command_suspended_,
  powerwash_scheduled_,
  delegate_,                     \* TRUE iff a progress delegate is set
  mounted,                       \* partitions mounted at fs_mount_dir_, last on top
  child,                         \* the child process: [pid, status, code, callback, term_pending]
  phase,                         \* "constructed", "running", "completed", "terminated"
  log,                           \* the calls made so far, in order
  reports,                       \* the value last passed to delegate_->ProgressUpdate, if any
  status_pipe,                   \* bytes the current child wrote to its status pipe, not yet read
  bytes_read,                    \* the bytes read from the status pipe of the current child, in order
  lines_processed                \* the lines passed to ProcessProgressLine for the current child, in order

\* The PayloadMetadata object (payload_consumer/payload_metadata.cc).  An
\* unsigned integer of w bytes is the sequence of its w base-256 digits,
\* most significant first.
VARIABLES
  major_payload_version_,
  manifest_size_,
  metadata_size_,
  metadata_signature_size_,
  returned                       \* the last call on the object: its arguments and what it returned

\* The FakeBootControl object (common/fake_boot_control.h).  A Slot is the
\* sequence of the 4 base-256 digits of an unsigned int; the vectors are
\* sequences indexed from 1.
VARIABLES
  num_slots_,
  current_slot_,
  is_bootable_,
  is_marked_successful_,
  crashed,                       \* TRUE iff a call on the object ended the process
  last_active                    \* the slots SetActiveBootSlot returned true for, the last first

runner_vars ==
  <<install_plan_, current_partition_, partition_weight_, total_weight_,
    accumulated_weight_, current_command_, progress_fd_,
    progress_controller_, progress_buffer_,
    is_current_command_suspended_, powerwash_scheduled_, delegate_,
    mounted, child, phase, log, reports, status_pipe, bytes_read,
    lines_processed>>

metadata_vars ==
  <<major_payload_version_, manifest_size_, metadata_size_,
    metadata_signature_size_, returned>>

boot_vars ==
  <<num_slots_, current_slot_, is_bootable_, is_marked_successful_, crashed,
    last_active>>

vars == <<runner_vars, metadata_vars, boot_vars>>

(***************************************************************************)
(* The state as one record, which the handlers map to sets of records.     *)
(***************************************************************************)
State ==
  [install_plan_ |-> install_plan_,
   current_partition_ |-> current_partition_,
   partition_weight_ |-> partition_weight_,
   total_weight_ |-> total_weight_,
   accumulated_weight_ |-> accumulated_weight_,
   current_command_ |-> current_command_,
   progress_fd_ |-> progress_fd_,
   progress_controller_ |-> progress_controller_,
   progress_buffer_ |-> progress_buffer_,
   is_current_command_suspended_ |-> is_current_command_suspended_,
   powerwash_scheduled_ |-> powerwash_scheduled_,
   delegate_ |-> delegate_,
   mounted |-> mounted,
   child |-> child,
   phase |-> phase,
   log |-> log,
   reports |-> reports,
   status_pipe |-> status_pipe,
   bytes_read |-> bytes_read,
   lines_processed |-> lines_processed]

RunnerBecomes(r) ==
  /\ install_plan_' = r.install_plan_
  /\ current_partition_' = r.current_partition_
  /\ partition_weight_' = r.partition_weight_
  /\ total_weight_' = r.total_weight_
  /\ accumulated_weight_' = r.accumulated_weight_
  /\ current_command_' = r.current_command_
  /\ progress_fd_' = r.progress_fd_
  /\ progress_controller_' = r.progress_controller_
  /\ progress_buffer_' = r.progress_buffer_
  /\ is_current_command_suspended_' = r.is_current_command_suspended_
  /\ powerwash_scheduled_' = r.powerwash_scheduled_
  /\ delegate_' = r.delegate_
  /\ mounted' = r.mounted
  /\ child' = r.child
  /\ phase' = r.phase
  /\ log' = r.log
  /\ reports' = r.reports
  /\ status_pipe' = r.status_pipe
  /\ bytes_read' = r.bytes_read
  /\ lines_processed' = r.lines_processed

Becomes(r) ==
  /\ RunnerBecomes(r)
  /\ UNCHANGED <<metadata_vars, boot_vars>>

\* One entry of log: the call op, the partition it is about (-1 if none),
\* its integer result or argument rc (1/0 for true/false), and the
\* ErrorCode of an ActionComplete.
Ev(op, part, rc, code) == [op |-> op, part |-> part, rc |-> rc, code |-> code]

Call(s, op, part, rc) == [s EXCEPT !.log = Append(@, Ev(op, part, rc, ""))]

B2N(b) == IF b THEN 1 ELSE 0

\* No child process: status is "none", "running", "stopped" or "zombie"
\* (exited and not yet reaped by the loop); code is the exit code of a
\* zombie; callback is TRUE while Subprocess holds the exit callback;
\* term_pending is TRUE while a termination signal waits for a stopped
\* child to be continued.
NoChild == [pid |-> 0, status |-> "none", code |-> 0, callback |-> FALSE,
            term_pending |-> FALSE]

(***************************************************************************)
(* Install plans.                                                          *)
(***************************************************************************)
\* The partitions of the plans: one that runs a post-install step names
\* its script, by a relative or by an absolute path; one that runs none has
\* no postinstall_path or a relative one.
Partitions ==
  {p \in [run_postinstall : BOOLEAN,
          postinstall_optional : BOOLEAN,
          postinstall_path : PostinstallPaths] :
     IF p.run_postinstall
     THEN p.postinstall_path # PathEmpty
     ELSE p.postinstall_path # PathAbsolute}

PartitionLists == UNION {[1..n -> Partitions] : n \in 0..MaxPartitions}

InstallPlans ==
  [partitions : PartitionLists,
   switch_slot_on_reboot : BOOLEAN,
   powerwash_required : BOOLEAN,
   run_post_install : BOOLEAN,
   download_url : {"", "url"},
   target_slot : {1}]

EmptyPlan ==
  [partitions |-> <<>>, switch_slot_on_reboot |-> FALSE,
   powerwash_required |-> FALSE, run_post_install |-> TRUE,
   download_url |-> "", target_slot |-> 0]

(***************************************************************************)
(* The environment: filesystems at fs_mount_dir_.                          *)
(***************************************************************************)
\* What a call returns: the state it leaves and its boolean result.
Ret(st, ok) == [st |-> st, ok |-> ok]

\* utils::IsMountpoint(fs_mount_dir_)
IsMountpoint(s) == s.mounted # <<>>

\* utils::UnmountFilesystem(fs_mount_dir_): umount fails with EINVAL when
\* nothing is mounted; otherwise it detaches the topmost filesystem, or
\* fails (also lazily) and leaves it mounted.
UnmountFilesystem(s) ==
  IF s.mounted = <<>>
  THEN {Ret(Call(s, "UnmountFilesystem", -1, 0), FALSE)}
  ELSE LET top == s.mounted[Len(s.mounted)]
       IN {Ret(Call([s EXCEPT !.mounted = SubSeq(@, 1, Len(@) - 1)],
                    "UnmountFilesystem", top, 1), TRUE),
           Ret(Call(s, "UnmountFilesystem", top, 0), FALSE)}

\* PostinstallRunnerAction::EnsureUnmounted: the result of the unmount is
\* not looked at.
EnsureUnmounted(s) ==
  IF IsMountpoint(s) THEN {r.st : r \in UnmountFilesystem(s)} ELSE {s}

\* PostinstallRunnerAction::MountPartition for partition i (0-based).  It
\* returns false when the device or the mount point does not exist; then,
\* after EnsureUnmounted, when the device cannot be set read-only or
\* MountFilesystem fails; otherwise the filesystem is mounted on top.
MountPartition(s, i) ==
  LET deviceMissing == Ret(Call(s, "MountPartition", i, 0), FALSE)
      mountPointMissing == Ret(Call(s, "MountPartition", i, 0), FALSE)
      readOnlyFailed(t) == Ret(Call(t, "MountPartition", i, 0), FALSE)
      mountFailed(t) == Ret(Call(t, "MountPartition", i, 0), FALSE)
      mountedOk(t) == Ret(Call([t EXCEPT !.mounted = Append(@, i)],
                               "MountPartition", i, 1), TRUE)
  IN {deviceMissing, mountPointMissing}
     \cup UNION {{readOnlyFailed(t), mountFailed(t), mountedOk(t)}
                 : t \in EnsureUnmounted(s)}

(***************************************************************************)
(* Paths (base::FilePath on POSIX, base::StartsWith).                      *)
(***************************************************************************)
IsAbsolute(path) == Len(path) > 0 /\ path[1] = "/"

\* FilePath(dir).Append(component): dir itself for an empty component,
\* otherwise dir, a separator, and the component.
FilePathAppend(dir, component) ==
  IF component = <<>> THEN dir ELSE dir \o <<"/">> \o component

StartsWith(str, prefix) ==
  /\ Len(str) >= Len(prefix)
  /\ SubSeq(str, 1, Len(prefix)) = prefix

(***************************************************************************)
(* Progress reports.  A fraction is [kind, n]: n/FracDen when kind is      *)
(* "finite", otherwise "nan", "inf" or "-inf".  A reported value is the    *)
(* rational num/den.                                                       *)
(***************************************************************************)
Frac(n) == [kind |-> "finite", n |-> n]

\* Faulty variant of ClampFrac: a fraction above 1 is let through.
ClampFrac_NoUpperLimit(frac) ==
  IF frac.kind # "finite" \/ frac.n < 0 THEN 0 ELSE frac.n

\* Lines 375-378 of ReportProgress.
ClampFrac(frac) ==
  IF frac.kind # "finite" \/ frac.n < 0 THEN 0
  ELSE IF frac.n > FracDen THEN FracDen
  ELSE frac.n

ProgressUpdate(s, num, den) ==
  [s EXCEPT !.reports = <<[num |-> num, den |-> den]>>]

\* Faulty variant of ReportProgress: the weight of the partitions already
\* done is left out.
ReportProgress_NoAccumulatedWeight(s, frac) ==
  IF ~s.delegate_ THEN s
  ELSE IF s.current_partition_ >= Len(s.partition_weight_) \/ s.total_weight_ = 0
  THEN ProgressUpdate(s, 1, 1)
  ELSE ProgressUpdate(s,
         s.partition_weight_[s.current_partition_ + 1] * ClampFrac(frac),
         s.total_weight_ * FracDen)

\* PostinstallRunnerAction::ReportProgress
ReportProgress(s, frac) ==
  IF ~s.delegate_ THEN s
  ELSE IF s.current_partition_ >= Len(s.partition_weight_) \/ s.total_weight_ = 0
  THEN ProgressUpdate(s, 1, 1)
  ELSE ProgressUpdate(s,
         s.accumulated_weight_ * FracDen
           + s.partition_weight_[s.current_partition_ + 1] * ClampFrac(frac),
         s.total_weight_ * FracDen)

\* The values a line "global_progress <v>" can carry: multiples of
\* 1/FracDen from below 0 to above 1, NaN and the infinities.
Fracs ==
  {Frac(n) : n \in -1..(FracDen + 1)}
    \cup {[kind |-> k, n |-> 0] : k \in {"nan", "inf", "-inf"}}

\* The lines of the status pipe: a progress line with its value, or a line
\* of any other shape.
ProgressLines ==
  {[kind |-> "global_progress", frac |-> f] : f \in Fracs}
    \cup {[kind |-> "other", frac |-> Frac(0)]}

\* Faulty variant of ProcessProgressLine: a value that is NaN is reported
\* like the others.
ProcessProgressLine_NaNReported(s, line) ==
  IF line.kind = "global_progress"
  THEN ReportProgress(s, line.frac)
  ELSE s

\* PostinstallRunnerAction::ProcessProgressLine: sscanf recognizes the line
\* and the value is not NaN.
ProcessProgressLine(s, line) ==
  IF line.kind = "global_progress" /\ line.frac.kind # "nan"
  THEN ReportProgress(s, line.frac)
  ELSE s

RECURSIVE ProcessLines(_, _)
\* The loop over the complete lines in OnProgressFdReady (lines 344-346).
ProcessLines(s, lines) ==
  IF lines = <<>> THEN s
  ELSE ProcessLines(ProcessProgressLine(s, Head(lines)), Tail(lines))

\* PostinstallRunnerAction::OnProgressFdReady: the reads of one readable
\* event give, together with progress_buffer_, the complete lines `lines`
\* and the unterminated rest `rest`; done is TRUE iff a read failed or met
\* the end of the pipe.
OnProgressFdReadyFrom(s, lines, rest, done) ==
  [ProcessLines(s, lines) EXCEPT
     !.progress_buffer_ = rest,
     !.progress_controller_ = IF done THEN FALSE ELSE @]

(***************************************************************************)
(* OnProgressFdReady byte by byte.  The bytes of the status pipe are "x"   *)
(* and the line feed.                                                      *)
(***************************************************************************)
Min(a, b) == IF a < b THEN a ELSE b

\* What utils::ReadAll gives: the bytes it read, those it left in the pipe,
\* its result and *eof.
Read(data, rest, ok, eof) == [data |-> data, rest |-> rest, ok |-> ok, eof |-> eof]

\* utils::ReadAll(progress_fd_, buf, count, &bytes_read, &eof) on the
\* non-blocking pipe: read() is repeated until count bytes are there
\* (result true), until it finds nothing to read for now (EAGAIN, result
\* true), until it fails (result false), or until it meets the end of the
\* pipe (result true, *eof true), which needs every byte to have been read
\* and the child to have exited.
ReadAll(s, count) ==
  LET pipe == s.status_pipe
      taken(n) == SubSeq(pipe, 1, n)
      left(n) == SubSeq(pipe, n + 1, Len(pipe))
  IN {Read(taken(n), left(n), TRUE, FALSE) : n \in 0..Min(count, Len(pipe))}
       \cup {Read(taken(n), left(n), FALSE, FALSE)
               : n \in 0..Min(count - 1, Len(pipe))}
       \cup (IF s.child.status \notin {"running", "stopped"} /\ Len(pipe) < count
             THEN {Read(pipe, <<>>, TRUE, TRUE)}
             ELSE {})

RECURSIVE SplitWantAll(_)
\* The pieces of str between its line feeds, the empty ones included.
SplitWantAll(str) ==
  IF \A i \in 1..Len(str) : str[i] # "\n" THEN <<str>>
  ELSE LET first == CHOOSE i \in 1..Len(str) :
                      /\ str[i] = "\n"
                      /\ \A j \in 1..(i - 1) : str[j] # "\n"
       IN <<SubSeq(str, 1, first - 1)>>
            \o SplitWantAll(SubSeq(str, first + 1, Len(str)))

\* base::SplitString(str, "\n", KEEP_WHITESPACE, SPLIT_WANT_ALL): no piece
\* for an empty string.
SplitString(str) == IF str = <<>> THEN <<>> ELSE SplitWantAll(str)

\* sscanf(line, "global_progress %lf", &frac) on a line of the bytes "x":
\* nothing is recognized.
Scanned(line) == [kind |-> "other", frac |-> Frac(0)]

RECURSIVE ProcessEachLine(_, _)
\* Lines 344-346 on lines of bytes; lines_processed keeps what is passed to
\* ProcessProgressLine.
ProcessEachLine(s, lines) ==
  IF lines = <<>> THEN s
  ELSE ProcessEachLine(
         ProcessProgressLine(
           [s EXCEPT !.lines_processed = Append(@, Head(lines))],
           Scanned(Head(lines))),
         Tail(lines))

\* The last piece processed as a line like the others.
KeepLastPiece_Processed(s, lines) ==
  ProcessEachLine([s EXCEPT !.progress_buffer_ = <<>>], lines)

\* Lines 340-347: the last piece stays in progress_buffer_ and the pieces
\* before it are processed.
KeepLastPiece(s, lines) ==
  IF lines = <<>> THEN s
  ELSE ProcessEachLine([s EXCEPT !.progress_buffer_ = lines[Len(lines)]],
                       SubSeq(lines, 1, Len(lines) - 1))

RECURSIVE OnProgressFdReadyLoop(_)
\* PostinstallRunnerAction::OnProgressFdReady, lines 332-354: the states
\* one run of the handler can end in.
OnProgressFdReadyLoop(s) ==
  UNION {
    LET appended == [s EXCEPT !.status_pipe = r.rest,
                              !.bytes_read = @ \o r.data,
                              !.progress_buffer_ = @ \o r.data]
        split == KeepLastPiece(appended, SplitString(appended.progress_buffer_))
    IN IF ~r.ok \/ r.eof
       THEN {[split EXCEPT !.progress_controller_ = FALSE]}
       ELSE IF Len(r.data) > 0 THEN OnProgressFdReadyLoop(split)
       ELSE {split}
    : r \in ReadAll(s, BufSize) }

(***************************************************************************)
(* Completion.                                                             *)
(***************************************************************************)
\* processor_->ActionComplete(this, error_code)
ActionComplete(s, error_code) ==
  [s EXCEPT !.log = Append(@, Ev("ActionComplete", -1, 0, error_code)),
            !.phase = "completed"]

\* Faulty variant of CancelsPowerwash: the cancellation does not look at
\* powerwash_scheduled_.
CancelsPowerwash_Unscheduled(s, error_code) ==
  /\ error_code # kSuccess
  /\ error_code # kUpdatedButNotActive

\* The condition of the DEFER block of CompletePostinstall under which the
\* powerwash is cancelled (lines 454-461).
CancelsPowerwash(s, error_code) ==
  /\ error_code # kSuccess
  /\ error_code # kUpdatedButNotActive
  /\ s.powerwash_scheduled_

\* Faulty variant of CompletePostinstallDeferred: the completion is
\* signalled by the DEFER block and once more by the function.
CompletePostinstallDeferred_Twice(s, error_code) ==
  ActionComplete(
    ActionComplete(
      IF CancelsPowerwash(s, error_code) THEN Call(s, "CancelPowerwash", -1, 1) ELSE s,
      error_code),
    error_code)

\* The DEFER block of CompletePostinstall: it runs when the function
\* returns, with the value error_code has then.
CompletePostinstallDeferred(s, error_code) ==
  ActionComplete(
    IF CancelsPowerwash(s, error_code) THEN Call(s, "CancelPowerwash", -1, 1) ELSE s,
    error_code)

\* Faulty variant of SwitchSlot: the active slot is set before the update
\* is finished.
SwitchSlot_SetActiveFirst(s) ==
  LET plan == s.install_plan_
      ps == B2N(plan.powerwash_required)
      setFailed == Call(s, "SetActiveBootSlot", plan.target_slot, 0)
      set == Call(s, "SetActiveBootSlot", plan.target_slot, 1)
      finishFailed == Call(set, "FinishUpdate", ps, 0)
      finished == Call(set, "FinishUpdate", ps, 1)
      done == Call(Call(finished, "SetWarmReset", -1, 1),
                   "SetVbmetaDigestForInactiveSlot", -1, 0)
  IN {[st |-> setFailed, code |-> kPostinstallRunnerError],
      [st |-> finishFailed, code |-> kPostinstallRunnerError],
      [st |-> done, code |-> kSuccess]}

\* The slot switch of CompletePostinstall (lines 467-476): the states it can
\* end in, each with the error code it leaves.
SwitchSlot(s) ==
  LET plan == s.install_plan_
      ps == B2N(plan.powerwash_required)
      finishFailed == Call(s, "FinishUpdate", ps, 0)
      finished == Call(s, "FinishUpdate", ps, 1)
      setFailed == Call(finished, "SetActiveBootSlot", plan.target_slot, 0)
      set == Call(finished, "SetActiveBootSlot", plan.target_slot, 1)
      done == Call(Call(set, "SetWarmReset", -1, 1),
                   "SetVbmetaDigestForInactiveSlot", -1, 0)
  IN {[st |-> finishFailed, code |-> kPostinstallRunnerError],
      [st |-> setFailed, code |-> kPostinstallRunnerError],
      [st |-> done, code |-> kSuccess]}

\* Faulty variant of CompletePostinstall: the DEFER block sees the value
\* error_code had when the function was entered.
CompletePostinstall_DeferByValue(s, error_code) ==
  IF error_code = kSuccess
  THEN IF s.install_plan_.switch_slot_on_reboot
       THEN {ActionComplete(r.st, r.code) : r \in SwitchSlot(s)}
       ELSE {ActionComplete(s, kUpdatedButNotActive)}
  ELSE {CompletePostinstallDeferred(s, error_code)}

\* Faulty variant of CompletePostinstall: the slot is switched whether or
\* not the plan asks for it.
CompletePostinstall_AlwaysSwitches(s, error_code) ==
  IF error_code = kSuccess
  THEN {CompletePostinstallDeferred(r.st, r.code) : r \in SwitchSlot(s)}
  ELSE {CompletePostinstallDeferred(s, error_code)}

\* PostinstallRunnerAction::CompletePostinstall
CompletePostinstall(s, error_code) ==
  IF error_code = kSuccess
  THEN IF s.install_plan_.switch_slot_on_reboot
       THEN {CompletePostinstallDeferred(r.st, r.code) : r \in SwitchSlot(s)}
       ELSE {CompletePostinstallDeferred(s, kUpdatedButNotActive)}
  ELSE {CompletePostinstallDeferred(s, error_code)}

(***************************************************************************)
(* The partition steps.                                                    *)
(***************************************************************************)
Partition(s, i) == s.install_plan_.partitions[i + 1]

NumPartitions(s) == Len(s.install_plan_.partitions)

\* base::FilePath(fs_mount_dir_).Append(postinstall_path).value()
AbsPath(postinstall_path) == FilePathAppend(fs_mount_dir_, postinstall_path)

\* Faulty variant of PathAllowed: only the prefix of the joined path is
\* tested.
PathAllowed_OnlyPrefix(postinstall_path) ==
  StartsWith(AbsPath(postinstall_path), fs_mount_dir_)

\* The two path tests of PerformPartitionPostinstall (lines 256-271): TRUE
\* iff the script of this path may be launched.
PathAllowed(postinstall_path) ==
  /\ ~IsAbsolute(postinstall_path)
  /\ StartsWith(AbsPath(postinstall_path), fs_mount_dir_)

\* Faulty variants of ExitErrorCode: the special return codes are not told
\* apart; the return code 4 is not.
ExitErrorCode_OnlyRunnerError(return_code) == kPostinstallRunnerError

ExitErrorCode_NoFirmwareRO(return_code) ==
  IF return_code = 3 THEN kPostinstallBootedFromFirmwareB
  ELSE kPostinstallRunnerError

\* Lines 410-424 of CompletePartitionPostinstall: the error code of a
\* non-zero return code.
ExitErrorCode(return_code) ==
  IF return_code = 4 THEN kPostinstallFirmwareRONotUpdatable
  ELSE IF return_code = 3 THEN kPostinstallBootedFromFirmwareB
  ELSE kPostinstallRunnerError

\* Faulty variants of FailureIgnored: every failure is ignored; none is.
FailureIgnored_Always(partition) == TRUE

FailureIgnored_Never(partition) == FALSE

\* Line 428 of CompletePartitionPostinstall: a failure of this partition is
\* ignored.
FailureIgnored(partition) == partition.postinstall_optional

\* Faulty variant of Cleanup: the watcher of the status pipe stays
\* registered.
Cleanup_KeepsWatcher(s) ==
  {[r.st EXCEPT !.progress_fd_ = -1,
                !.progress_buffer_ = <<>>] : r \in UnmountFilesystem(s)}

\* PostinstallRunnerAction::Cleanup (under __ANDROID__): the result of the
\* unmount is not looked at.
Cleanup(s) ==
  {[r.st EXCEPT !.progress_fd_ = -1,
                !.progress_controller_ = FALSE,
                !.progress_buffer_ = <<>>] : r \in UnmountFilesystem(s)}

\* Faulty variant of ExecFlags: the exit callback of the new child is not
\* registered.
ExecFlags_NoCallback(s, i) ==
  {Ret([Call(s, "ExecFlags", i, i + 1)
          EXCEPT !.child = [NoChild EXCEPT !.pid = i + 1,
                                           !.status = "running"],
                 !.status_pipe = <<>>,
                 !.bytes_read = <<>>,
                 !.lines_processed = <<>>],
       TRUE),
   Ret(Call(s, "ExecFlags", i, 0), FALSE)}

\* Subprocess::Get().ExecFlags(command, ..., callback) for the script of
\* partition i: a new child with its exit callback registered and a new,
\* empty status pipe, or pid 0.
ExecFlags(s, i) ==
  {Ret([Call(s, "ExecFlags", i, i + 1)
          EXCEPT !.child = [NoChild EXCEPT !.pid = i + 1,
                                           !.status = "running",
                                           !.callback = TRUE],
                 !.status_pipe = <<>>,
                 !.bytes_read = <<>>,
                 !.lines_processed = <<>>],
       TRUE),
   Ret(Call(s, "ExecFlags", i, 0), FALSE)}

\* Lines 434-435 of CompletePartitionPostinstall: the weight of the current
\* partition is accumulated and the cursor moves to the next partition.
AdvancePartition_NoWeight(s) == [s EXCEPT !.current_partition_ = @ + 1]

AdvancePartition(s) ==
  [s EXCEPT !.accumulated_weight_ =
               @ + s.partition_weight_[s.current_partition_ + 1],
            !.current_partition_ = @ + 1]

RECURSIVE PerformPartitionPostinstall(_)
RECURSIVE CompletePartitionPostinstall(_, _)
RECURSIVE SkipPartitions(_)

\* PostinstallRunnerAction::CompletePartitionPostinstall
CompletePartitionPostinstall(s, return_code) ==
  UNION {
    IF return_code # 0 /\ ~FailureIgnored(Partition(c, c.current_partition_))
    THEN CompletePostinstall(c, ExitErrorCode(return_code))
    ELSE PerformPartitionPostinstall(ReportProgress(AdvancePartition(c), Frac(0)))
    : c \in Cleanup([s EXCEPT !.current_command_ = 0]) }

\* Faulty variant of MountFailed: the failed mount is handled like a failed
\* script.
MountFailed_AsScriptFailure(s) == CompletePartitionPostinstall(s, 1)

\* Lines 251-254 of PerformPartitionPostinstall: MountPartition returned
\* false for the current partition.
MountFailed(s) == CompletePostinstall(s, kPostInstallMountError)

\* Faulty variant of LaunchFailed: the run is ended without
\* CompletePartitionPostinstall.
LaunchFailed_EndsRun(s) ==
  CompletePostinstall([s EXCEPT !.current_command_ = 0],
                      kPostinstallRunnerError)

\* Lines 310-313 of PerformPartitionPostinstall: ExecFlags returned 0, which
\* was assigned to current_command_.
LaunchFailed(s) ==
  CompletePartitionPostinstall([s EXCEPT !.current_command_ = 0], 1)

\* The body of PerformPartitionPostinstall after the skip loop (lines
\* 240-327).
RunPartition(s) ==
  IF s.current_partition_ = NumPartitions(s)
  THEN CompletePostinstall(s, kSuccess)
  ELSE
    LET i == s.current_partition_
        partition == Partition(s, i)
    IN UNION {
         IF ~m.ok THEN MountFailed(m.st)
         ELSE IF ~PathAllowed(partition.postinstall_path)
         THEN CompletePostinstall(m.st, kPostinstallRunnerError)
         ELSE UNION {
           IF ~e.ok THEN LaunchFailed(e.st)
           ELSE {[e.st EXCEPT !.current_command_ = e.st.child.pid,
                              !.progress_fd_ = e.st.child.pid,
                              !.progress_controller_ = TRUE]}
           : e \in ExecFlags(m.st, i) }
         : m \in MountPartition(s, i) }

\* Whether the skip loop mounts a partition that has no post-install step:
\* !partition.postinstall_path.empty().
HasPostinstallPath_Always(partition) == TRUE

HasPostinstallPath(partition) == partition.postinstall_path # <<>>

\* The loop of PerformPartitionPostinstall over the partitions that have no
\* post-install step (lines 212-239), followed by the rest of the function.
SkipPartitions(s) ==
  IF /\ s.current_partition_ < NumPartitions(s)
     /\ ~Partition(s, s.current_partition_).run_postinstall
  THEN
    LET i == s.current_partition_
        next(t) == [t EXCEPT !.current_partition_ = @ + 1]
    IN IF HasPostinstallPath(Partition(s, i))
       THEN UNION {
              IF ~m.ok THEN CompletePostinstall(m.st, kPostInstallMountError)
              ELSE UNION {
                IF ~u.ok THEN CompletePartitionPostinstall(u.st, 1)
                ELSE SkipPartitions(next(u.st))
                : u \in UnmountFilesystem(m.st) }
              : m \in MountPartition(s, i) }
       ELSE SkipPartitions(next(s))
  ELSE RunPartition(s)

\* Faulty variant of PerformPartitionPostinstall: the download_url is not
\* looked at.
PerformPartitionPostinstall_AnyUrl(s) == SkipPartitions(s)

\* PostinstallRunnerAction::PerformPartitionPostinstall
PerformPartitionPostinstall(s) ==
  IF s.install_plan_.download_url = ""
  THEN CompletePostinstall(s, kSuccess)
  ELSE SkipPartitions(s)

(***************************************************************************)
(* PerformAction.                                                          *)
(***************************************************************************)
\* Lines 145-149 of PerformAction: whether partition keeps its post-install
\* step.
RunPostinstallOf(plan, partition) ==
  IF ~plan.run_post_install /\ partition.postinstall_optional
  THEN FALSE
  ELSE partition.run_postinstall

\* Lines 140-157 of PerformAction: the weights, and run_postinstall cleared
\* for the optional partitions of a plan that runs no optional post-install.
InitWeights(s) ==
  LET plan == s.install_plan_
      n == Len(plan.partitions)
      parts == [i \in 1..n |->
                  [plan.partitions[i] EXCEPT
                     !.run_postinstall = RunPostinstallOf(plan, plan.partitions[i])]]
      weight == [i \in 1..n |-> B2N(parts[i].run_postinstall)]
      RECURSIVE Sum(_)
      Sum(k) == IF k = 0 THEN 0 ELSE weight[k] + Sum(k - 1)
  IN [s EXCEPT !.install_plan_.partitions = parts,
               !.partition_weight_ = weight,
               !.total_weight_ = Sum(n),
               !.accumulated_weight_ = 0]

\* Lines 132-138 of PerformAction: hardware_->SchedulePowerwash() of a plan
\* that requires a powerwash; ok is FALSE iff scheduling failed.
SchedulePowerwash(s) ==
  IF s.install_plan_.powerwash_required
  THEN {Ret([Call(s, "SchedulePowerwash", -1, 1) EXCEPT !.powerwash_scheduled_ = TRUE], TRUE),
        Ret(Call(s, "SchedulePowerwash", -1, 0), FALSE)}
  ELSE {Ret(s, TRUE)}

\* Lines 116-126 of PerformAction: MapAllPartitions, called when Virtual A/B
\* is enabled outside recovery and the plan has partitions or switches
\* slots; ok is FALSE iff it was called and failed.  Only a failed call is
\* entered in log.
MapAllPartitions(s, virtual_ab) ==
  IF /\ virtual_ab
     /\ (s.install_plan_.partitions # <<>> \/ s.install_plan_.switch_slot_on_reboot)
  THEN {Ret(s, TRUE), Ret(Call(s, "MapAllPartitions", -1, 0), FALSE)}
  ELSE {Ret(s, TRUE)}

\* PostinstallRunnerAction::PerformAction on the input object plan;
\* virtual_ab is GetVirtualAbFeatureFlag().IsEnabled() && !kIsRecovery.
PerformActionFrom(s, plan, virtual_ab) ==
  UNION {
    IF ~m.ok THEN CompletePostinstall(m.st, kPostInstallMountError)
    ELSE UNION {
      IF ~p.ok THEN CompletePostinstall(p.st, kPostinstallPowerwashError)
      ELSE PerformPartitionPostinstall(ReportProgress(InitWeights(p.st), Frac(0)))
      : p \in SchedulePowerwash(m.st) }
    : m \in MapAllPartitions([s EXCEPT !.install_plan_ = plan,
                                       !.phase = "running"], virtual_ab) }

(***************************************************************************)
(* Suspend, resume, terminate (bodies after the current_command_ test).    *)
(***************************************************************************)
\* kill(current_command_, sig) that succeeded: a signal reaches a child that
\* has not been reaped, also when it has already exited.
\* A termination signal stays pending while the child is stopped.
Killed(s, sig) ==
  LET c == s.child
  IN [s EXCEPT !.child =
        IF c.status = "zombie" THEN c
        ELSE IF sig = "SIGSTOP" THEN [c EXCEPT !.status = "stopped"]
        ELSE IF sig = "SIGCONT"
        THEN [c EXCEPT !.status = IF c.term_pending THEN "zombie" ELSE "running",
                       !.term_pending = FALSE]
        ELSE IF c.status = "stopped" THEN [c EXCEPT !.term_pending = TRUE]
        ELSE [c EXCEPT !.status = "zombie"]]

\* PostinstallRunnerAction::SuspendAction
SuspendActionFrom(s) ==
  IF s.current_command_ = 0 THEN {s}
  ELSE {s, [Killed(s, "SIGSTOP") EXCEPT !.is_current_command_suspended_ = TRUE]}

\* PostinstallRunnerAction::ResumeAction
ResumeActionFrom(s) ==
  IF s.current_command_ = 0 THEN {s}
  ELSE {s, [Killed(s, "SIGCONT") EXCEPT !.is_current_command_suspended_ = FALSE]}

\* Subprocess::Get().KillExec(pid): the callback is discarded, and with it
\* the exit code the child has or will have, and the child is sent the
\* termination signal.
KillExec(s) ==
  Killed(Call([s EXCEPT !.child.callback = FALSE, !.child.code = 0],
              "KillExec", s.current_partition_, 1),
         "SIGTERM")

\* The ResumeAction call that TerminateProcessing makes when
\* is_current_command_suspended_ is set, entered in log with the result of
\* its kill(current_command_, SIGCONT).
ResumeSuspended(s) ==
  { Call(r, "ResumeAction", s.current_partition_,
         B2N(~r.is_current_command_suspended_))
    : r \in ResumeActionFrom(s) }

\* The signals of TerminateProcessing: KillExec, then the ResumeAction.
TerminateSignals_ResumeFirst(s) ==
  IF s.is_current_command_suspended_
  THEN {KillExec(r) : r \in ResumeSuspended(s)}
  ELSE {KillExec(s)}

TerminateSignals(s) ==
  IF s.is_current_command_suspended_
  THEN ResumeSuspended(KillExec(s))
  ELSE {KillExec(s)}

\* PostinstallRunnerAction::TerminateProcessing
TerminateProcessingFrom(s) ==
  IF s.current_command_ = 0 THEN {s}
  ELSE UNION {
         {[c EXCEPT !.phase = "terminated"]
            : c \in Cleanup([r EXCEPT !.current_command_ = 0])}
         : r \in TerminateSignals(s) }

(***************************************************************************)
(* Payload metadata: unsigned integers of a fixed width.                   *)
(***************************************************************************)
\* The first byte of the version field: sizeof(kDeltaMagic).
kDeltaMagic == <<67, 114, 65, 85>>
kDeltaVersionOffset == Len(kDeltaMagic)
kDeltaVersionSize == 8
kDeltaManifestSizeSize == 8

kDeltaManifestSizeOffset == kDeltaVersionOffset + kDeltaVersionSize
kDeltaMetadataSignatureSizeSize == 4
kMinSupportedMajorPayloadVersion == 2
kMaxSupportedMajorPayloadVersion == 2

GetMetadataSignatureSizeOffset == kDeltaManifestSizeOffset + kDeltaManifestSizeSize

GetManifestOffset ==
  kDeltaManifestSizeOffset + kDeltaManifestSizeSize
    + kDeltaMetadataSignatureSizeSize

\* MetadataParseResult and the ErrorCode values of the metadata functions.
MetadataParseResult_kSuccess == "MetadataParseResult::kSuccess"
MetadataParseResult_kError == "MetadataParseResult::kError"
MetadataParseResult_kInsufficientData == "MetadataParseResult::kInsufficientData"
kDownloadInvalidMetadataMagicString == "kDownloadInvalidMetadataMagicString"
kUnsupportedMajorPayloadVersion == "kUnsupportedMajorPayloadVersion"
kDownloadInvalidMetadataSize == "kDownloadInvalidMetadataSize"
kDownloadMetadataSignatureError == "kDownloadMetadataSignatureError"
kDownloadMetadataSignatureMissingError == "kDownloadMetadataSignatureMissingError"
kDownloadMetadataSignatureVerificationError == "kDownloadMetadataSignatureVerificationError"
kDownloadMetadataSignatureMismatch == "kDownloadMetadataSignatureMismatch"

Reverse(seq) == [i \in 1..Len(seq) |-> seq[Len(seq) + 1 - i]]

\* The unsigned integer of w bytes with the value n (n below 2^31).
Unsigned(n, w) ==
  [i \in 1..w |->
     IF w - i = 0 THEN n % 256
     ELSE IF w - i = 1 THEN (n \div 256) % 256
     ELSE IF w - i = 2 THEN (n \div 65536) % 256
     ELSE IF w - i = 3 THEN (n \div 16777216) % 256
     ELSE 0]

\* Conversion to the wider unsigned type (uint32_t to uint64_t, size_t).
Widen(a, w) ==
  [i \in 1..w |-> IF i <= w - Len(a) THEN 0 ELSE a[i - (w - Len(a))]]

RECURSIVE CarryOut(_, _, _)
\* The carry out of digit i when a and b, of the same width, are added.
CarryOut(a, b, i) ==
  IF i > Len(a) THEN 0 ELSE (a[i] + b[i] + CarryOut(a, b, i + 1)) \div 256

\* a + b in the unsigned type of a and b: the sum modulo 256^width.
UnsignedAdd(a, b) ==
  [i \in 1..Len(a) |-> (a[i] + b[i] + CarryOut(a, b, i + 1)) % 256]

\* a < b for unsigned integers of the same width.
UnsignedLess(a, b) ==
  \E i \in 1..Len(a) :
    /\ a[i] < b[i]
    /\ \A j \in 1..(i - 1) : a[j] = b[j]

\* An unsigned integer is small when it is below 2^16; Small gives its value.
IsSmall(a) == \A i \in 1..(Len(a) - 2) : a[i] = 0

Small(a) == a[Len(a) - 1] * 256 + a[Len(a)]

\* memcpy(&field, &payload[offset], size): the integer of the host whose
\* bytes in memory are those of the payload, the least significant first on
\* a little-endian host.
Memcpy(payload, offset, size, little_endian) ==
  LET bytes == SubSeq(payload, offset + 1, offset + size)
  IN IF little_endian THEN Reverse(bytes) ELSE bytes

\* The bytes kept in the order of the payload on every host.
BeToHost_NoSwap(v, little_endian) == v

\* be64toh, be32toh: the bytes are swapped on a little-endian host.
BeToHost(v, little_endian) == IF little_endian THEN Reverse(v) ELSE v

(***************************************************************************)
(* PayloadMetadata::ParsePayloadHeader.                                    *)
(***************************************************************************)
\* What ParsePayloadHeader gives: the fields of the object afterwards, the
\* result, and the ErrorCode written to *error ("" if none is written).
Parsed(obj, result, error) == [obj |-> obj, result |-> result, error |-> error]

\* The first size check made after the manifest size instead.
InsufficientForVersion_AfterManifestSize(size) ==
  size < GetMetadataSignatureSizeOffset

\* Lines 59-62: there are not enough bytes to even know the payload version.
InsufficientForVersion(size) == size < kDeltaManifestSizeOffset

\* The version kept in a local variable until the header is accepted.
StoreMajorVersion_Unstored(obj, version) == obj

\* Lines 89-93: major_payload_version_ is assigned before it is tested.
StoreMajorVersion(obj, version) ==
  [obj EXCEPT !.major_payload_version_ = version]

\* Lines 57-135, on an object obj with the four fields.
ParsePayloadHeaderOf(obj, payload, little_endian) ==
  LET size == Len(payload)
      manifest_offset == GetManifestOffset
      version == BeToHost(Memcpy(payload, kDeltaVersionOffset,
                                 kDeltaVersionSize, little_endian),
                          little_endian)
      obj1 == StoreMajorVersion(obj, version)
      manifest_size == BeToHost(Memcpy(payload, kDeltaManifestSizeOffset,
                                       kDeltaManifestSizeSize, little_endian),
                                little_endian)
      metadata_size == UnsignedAdd(Unsigned(manifest_offset, 8), manifest_size)
      obj2 == [obj1 EXCEPT !.manifest_size_ = manifest_size,
                           !.metadata_size_ = metadata_size]
      signature_size == BeToHost(Memcpy(payload, GetMetadataSignatureSizeOffset,
                                        kDeltaMetadataSignatureSizeSize,
                                        little_endian),
                                 little_endian)
      obj3 == [obj2 EXCEPT !.metadata_signature_size_ = signature_size]
  IN IF InsufficientForVersion(size)
     THEN Parsed(obj, MetadataParseResult_kInsufficientData, "")
     ELSE IF SubSeq(payload, 1, Len(kDeltaMagic)) # kDeltaMagic
     THEN Parsed(obj, MetadataParseResult_kError,
                 kDownloadInvalidMetadataMagicString)
     ELSE IF size < manifest_offset
     THEN Parsed(obj, MetadataParseResult_kInsufficientData, "")
     ELSE IF \/ UnsignedLess(version, Unsigned(kMinSupportedMajorPayloadVersion, 8))
             \/ UnsignedLess(Unsigned(kMaxSupportedMajorPayloadVersion, 8), version)
     THEN Parsed(obj1, MetadataParseResult_kError,
                 kUnsupportedMajorPayloadVersion)
     ELSE IF UnsignedLess(metadata_size, manifest_size)
     THEN Parsed(obj2, MetadataParseResult_kError, kDownloadInvalidMetadataSize)
     ELSE IF UnsignedLess(UnsignedAdd(metadata_size, Widen(signature_size, 8)),
                          metadata_size)
     THEN Parsed(obj3, MetadataParseResult_kError, kDownloadInvalidMetadataSize)
     ELSE Parsed(obj3, MetadataParseResult_kSuccess, "")

(***************************************************************************)
(* PayloadMetadata::ValidateMetadataSignature.                             *)
(***************************************************************************)
\* The base64 digits the signatures of the model are written with.
Base64Digits == [c \in {"A", "B", "I", "Q"} |->
                   CASE c = "A" -> 0 [] c = "B" -> 1 [] c = "I" -> 8 [] c = "Q" -> 16]

RECURSIVE Base64Groups(_)
\* The bytes of a string of groups of four characters: three bytes a group,
\* two or one for a last group padded with one or two "="; <<-1>> marks a
\* string that is not base64.
Base64Groups(str) ==
  IF str = <<>> THEN <<>>
  ELSE LET g == SubSeq(str, 1, 4)
           rest == SubSeq(str, 5, Len(str))
           pad == IF g[4] # "=" THEN 0 ELSE IF g[3] # "=" THEN 1 ELSE 2
           digit(i) == IF i > 4 - pad THEN 0 ELSE Base64Digits[g[i]]
           bits == ((digit(1) * 64 + digit(2)) * 64 + digit(3)) * 64 + digit(4)
           bytes == <<bits \div 65536, (bits \div 256) % 256, bits % 256>>
       IN IF \/ \E i \in 1..(4 - pad) : g[i] \notin DOMAIN Base64Digits
             \/ (pad > 0 /\ rest # <<>>)
          THEN <<-1>>
          ELSE LET tail == Base64Groups(rest)
               IN IF tail = <<-1>> THEN <<-1>>
                  ELSE SubSeq(bytes, 1, 3 - pad) \o tail

\* brillo::data_encoding::Base64Decode: carriage returns and line feeds are
\* left out, and what remains is decoded; ok is FALSE iff it is not base64.
Base64Decode(input) ==
  LET data == SelectSeq(input, LAMBDA c : c \notin {"\n", "\r"})
      blob == IF Len(data) % 4 # 0 THEN <<-1>> ELSE Base64Groups(data)
  IN IF blob = <<-1>> THEN [ok |-> FALSE, blob |-> <<>>]
     ELSE [ok |-> TRUE, blob |-> blob]

\* What ValidateMetadataSignature did: the ErrorCode it returned, the
\* capability of the verifier it called ("" if none) with the signature it
\* passed, and the bytes whose hash it passed.
Validated(code, capability, signature, hashed) ==
  [code |-> code, capability |-> capability, signature |-> signature,
   hashed |-> hashed]

\* The container taken from the beginning of the payload.
EmbeddedSignature_FromStart(obj, payload) ==
  SubSeq(payload, 1, Small(obj.metadata_signature_size_))

\* Lines 177-181: the bytes of the payload from metadata_size_ to
\* metadata_size_ + metadata_signature_size_.
EmbeddedSignature(obj, payload) ==
  SubSeq(payload, Small(obj.metadata_size_) + 1,
         Small(obj.metadata_size_) + Small(obj.metadata_signature_size_))

\* Lines 156-223.  hash is what HashCalculator::RawHashOfBytes does:
\* "failed", or a hash of "sha256" or of another size; verified is what the
\* capability of the verifier returns.
ValidateMetadataSignatureOf(obj, payload, metadata_signature, hash, verified) ==
  LET metadata_size == obj.metadata_size_
      signature_size == Widen(obj.metadata_signature_size_, 8)
      decoded == Base64Decode(metadata_signature)
      metadata_signature_blob ==
        IF metadata_signature # <<>> THEN decoded.blob ELSE <<>>
      metadata_signature_protobuf ==
        IF metadata_signature # <<>> THEN <<>>
        ELSE EmbeddedSignature(obj, payload)
      hashed == SubSeq(payload, 1, Small(metadata_size))
  IN IF UnsignedLess(Unsigned(Len(payload), 8),
                     UnsignedAdd(metadata_size, signature_size))
     THEN Validated(kDownloadMetadataSignatureError, "", <<>>, <<>>)
     ELSE IF metadata_signature # <<>> /\ ~decoded.ok
     THEN Validated(kDownloadMetadataSignatureError, "", <<>>, <<>>)
     ELSE IF metadata_signature_blob = <<>> /\ metadata_signature_protobuf = <<>>
     THEN Validated(kDownloadMetadataSignatureMissingError, "", <<>>, <<>>)
     ELSE IF hash # "sha256"
     THEN Validated(kDownloadMetadataSignatureVerificationError, "", <<>>, hashed)
     ELSE IF metadata_signature_blob # <<>>
     THEN Validated(IF verified THEN kSuccess
                    ELSE kDownloadMetadataSignatureMismatch,
                    "VerifyRawSignature", metadata_signature_blob, hashed)
     ELSE Validated(IF verified THEN kSuccess
                    ELSE kDownloadMetadataSignatureMismatch,
                    "VerifySignature", metadata_signature_protobuf, hashed)

(***************************************************************************)
(* BootControlInterface::SlotName.  A Slot is an unsigned int of 32 bits,  *)
(* a string the sequence of its character codes.                           *)
(***************************************************************************)
kInvalidSlot == <<255, 255, 255, 255>>

\* The names that are not letters: "INVALID" and "TOO_BIG".
kInvalidName == <<73, 78, 86, 65, 76, 73, 68>>
kTooBigName == <<84, 79, 79, 95, 66, 73, 71>>

\* The number of letters, and the code of 'A'.
kLetters == 26
kLetterA == 65

\* The invalid slot not told from the slots past the letters.
SlotName_InvalidIsTooBig(slot) ==
  IF UnsignedLess(slot, Unsigned(kLetters, 4))
  THEN <<(kLetterA + Small(slot)) % 256>>
  ELSE kTooBigName

\* Lines 112-118; std::string(1, 'A' + slot) holds the sum as a char.
SlotName(slot) ==
  IF slot = kInvalidSlot THEN kInvalidName
  ELSE IF UnsignedLess(slot, Unsigned(kLetters, 4))
  THEN <<(kLetterA + Small(slot)) % 256>>
  ELSE kTooBigName

(***************************************************************************)
(* FakeBootControl.  Every member function maps the object to the set of  *)
(* outcomes it can have: the object afterwards, whether the process was    *)
(* ended, what was returned ("" if nothing was) and how often the callback *)
(* was run.                                                                *)
(***************************************************************************)
BootOutcome(obj, ended, result, callbacks) ==
  [obj |-> obj, crashed |-> ended, result |-> result, callbacks |-> callbacks]

\* slot < num_slots_
SlotInRange(obj, slot) == UnsignedLess(slot, obj.num_slots_)

\* std::vector<bool>::resize(n, false)
Resize(v, n) == [i \in 1..n |-> IF i <= Len(v) THEN v[i] ELSE FALSE]

\* The objects that a write past the end of a vector can leave: the object
\* as it was, or with one bit of its vectors changed.
Overwritten(obj) ==
  {obj}
    \cup {[obj EXCEPT !.is_bootable_[i] = ~@] :
            i \in 1..Len(obj.is_bootable_)}
    \cup {[obj EXCEPT !.is_marked_successful_[i] = ~@] :
            i \in 1..Len(obj.is_marked_successful_)}

\* Lines 49-52.
GetNumSlots(obj) == obj.num_slots_
GetCurrentSlot(obj) == obj.current_slot_

\* Lines 79-81.
IsSlotBootable(obj, slot) ==
  SlotInRange(obj, slot) /\ obj.is_bootable_[Small(slot) + 1]

\* Lines 101-103.
IsSlotMarkedSuccessful(obj, slot) ==
  SlotInRange(obj, slot) /\ obj.is_marked_successful_[Small(slot) + 1]

\* The slot loses its successful mark with its bootable flag.
MarkSlotUnbootableOf_ClearsSuccessful(obj, slot) ==
  IF ~SlotInRange(obj, slot)
  THEN {BootOutcome(obj, FALSE, FALSE, 0)}
  ELSE {BootOutcome([obj EXCEPT
                       !.is_bootable_[Small(slot) + 1] = FALSE,
                       !.is_marked_successful_[Small(slot) + 1] = FALSE],
                    FALSE, TRUE, 0)}

\* Lines 83-88.
MarkSlotUnbootableOf(obj, slot) ==
  IF ~SlotInRange(obj, slot)
  THEN {BootOutcome(obj, FALSE, FALSE, 0)}
  ELSE {BootOutcome([obj EXCEPT !.is_bootable_[Small(slot) + 1] = FALSE],
                    FALSE, TRUE, 0)}

\* Line 90.
SetActiveBootSlotOf(obj, slot) == {BootOutcome(obj, FALSE, TRUE, 0)}

\* The slot the system runs from given as the one it will boot from.
GetActiveBootSlotOf_ReturnsCurrent(obj) ==
  {BootOutcome(obj, FALSE, GetCurrentSlot(obj), 0)}

\* Line 91.
GetActiveBootSlotOf(obj) == {BootOutcome(obj, FALSE, kInvalidSlot, 0)}

\* Lines 93-99.  is_marked_successful_[GetCurrentSlot()] is written without
\* a check of the index: past the end of the vector the behaviour is
\* undefined, and the process is ended or goes on with what was overwritten.
MarkBootSuccessfulAsyncOf(obj) ==
  IF SlotInRange(obj, GetCurrentSlot(obj))
  THEN {BootOutcome([obj EXCEPT
                       !.is_marked_successful_[Small(GetCurrentSlot(obj)) + 1]
                         = TRUE],
                    FALSE, TRUE, 1)}
  ELSE {BootOutcome(obj, TRUE, "", 0)}
         \cup {BootOutcome(o, FALSE, TRUE, 1) : o \in Overwritten(obj)}

\* Lines 106-111; devices_ is left out.
SetNumSlotsOf(obj, num_slots) ==
  {BootOutcome([obj EXCEPT
                  !.num_slots_ = num_slots,
                  !.is_bootable_ = Resize(@, Small(num_slots)),
                  !.is_marked_successful_ = Resize(@, Small(num_slots))],
               FALSE, "", 0)}

\* Line 113.
SetCurrentSlotOf(obj, slot) ==
  {BootOutcome([obj EXCEPT !.current_slot_ = slot], FALSE, "", 0)}

\* Lines 122-125.  DCHECK ends the process where it is compiled in; where
\* it is not, the write past the end is undefined.
SetSlotBootableOf(obj, slot, bootable) ==
  IF SlotInRange(obj, slot)
  THEN {BootOutcome([obj EXCEPT !.is_bootable_[Small(slot) + 1] = bootable],
                    FALSE, "", 0)}
  ELSE {BootOutcome(obj, TRUE, "", 0)}
         \cup {BootOutcome(o, FALSE, "", 0) : o \in Overwritten(obj)}

(***************************************************************************)
(* The payloads the metadata functions are given.                          *)
(***************************************************************************)
\* The eight-byte value 0xFFFFFFFFFFFFFF00 + low.
NearMax(low) == [i \in 1..8 |-> IF i < 8 THEN 255 ELSE low]

\* Manifest sizes: small ones, and 2^64 - 256, 2^64 - 25, 2^64 - 24 and
\* 2^64 - 1, around the place where the manifest offset plus the manifest
\* size wraps.
HeaderManifestSizes ==
  {Unsigned(n, 8) : n \in 0..MaxManifestSize}
    \cup {NearMax(0), NearMax(231), NearMax(232), NearMax(255)}

\* Metadata signature sizes: small ones, 231 and 232 (which with a manifest
\* size of 2^64 - 256 reach 2^64 - 1 and 2^64), and 2^32 - 1.
HeaderSignatureSizes ==
  {Unsigned(n, 4) : n \in 0..MaxSignatureSize}
    \cup {<<0, 0, 0, 231>>, <<0, 0, 0, 232>>, <<255, 255, 255, 255>>}

\* Major versions: 1, 2, 3, 2 with the bytes in little-endian order, and
\* 2^56 + 2.
HeaderVersions ==
  {Unsigned(1, 8), Unsigned(2, 8), Unsigned(3, 8),
   <<2, 0, 0, 0, 0, 0, 0, 0>>, <<1, 0, 0, 0, 0, 0, 0, 2>>}

\* Magic strings: "CrAU", and two that differ from it in one byte.
HeaderMagics == {kDeltaMagic, <<67, 114, 65, 86>>, <<99, 114, 65, 85>>}

Header(magic, version, manifest_size, signature_size) ==
  magic \o version \o manifest_size \o signature_size

\* Headers of 24 bytes: every pair of sizes with the magic and a supported
\* version; every version and every magic with sizes of zero and with a
\* manifest size that wraps.
Headers ==
  {Header(kDeltaMagic, Unsigned(2, 8), ms, ss) :
     ms \in HeaderManifestSizes, ss \in HeaderSignatureSizes}
    \cup {Header(magic, version, ms, Unsigned(0, 4)) :
            magic \in HeaderMagics, version \in HeaderVersions,
            ms \in {Unsigned(0, 8), NearMax(232)}}

\* The k bytes that follow a header.
Body(k) == [i \in 1..k |-> i]

\* The payloads: headers cut short, headers, and headers followed by up to
\* MaxManifestSize + MaxSignatureSize bytes.
Payloads ==
  {SubSeq(h, 1, n) : h \in Headers, n \in 0..Len(kDeltaMagic)}
    \cup {SubSeq(Header(magic, Unsigned(2, 8), Unsigned(0, 8), Unsigned(0, 4)),
                 1, n) :
            magic \in HeaderMagics, n \in Len(kDeltaMagic)..GetManifestOffset}
    \cup {h \o Body(k) :
            h \in Headers, k \in 0..(MaxManifestSize + MaxSignatureSize)}

\* The out-of-band metadata signatures, base64 strings as sequences of
\* characters: none, "AQ==" and "AQIB" (the bytes 1 and 1, 2, 1), a line
\* feed alone, "AQ==" followed by a line feed, and two strings that are not
\* base64.
MetadataSignatures ==
  {<<>>,
   <<"A", "Q", "=", "=">>,
   <<"A", "Q", "I", "B">>,
   <<"\n">>,
   <<"A", "Q", "=", "=", "\n">>,
   <<"!", "!", "!", "!">>,
   <<"A", "Q", "=">>}

(***************************************************************************)
(* The state machine.                                                      *)
(***************************************************************************)
\* The state after construction: nothing is mounted at fs_mount_dir_
\* (EnsureUnmounted in the constructor), no plan has been read yet.
Init ==
  /\ install_plan_ = EmptyPlan
  /\ current_partition_ = 0
  /\ partition_weight_ = <<>>
  /\ total_weight_ = 0
  /\ accumulated_weight_ = 0
  /\ current_command_ = 0
  /\ progress_fd_ = -1
  /\ progress_controller_ = FALSE
  /\ progress_buffer_ = <<>>
  /\ is_current_command_suspended_ = FALSE
  /\ powerwash_scheduled_ = FALSE
  /\ delegate_ = TRUE
  /\ mounted = <<>>
  /\ child = NoChild
  /\ phase = "constructed"
  /\ log = <<>>
  /\ reports = <<>>
  /\ status_pipe = <<>>
  /\ bytes_read = <<>>
  /\ lines_processed = <<>>
  /\ major_payload_version_ = Unsigned(0, 8)
  /\ manifest_size_ = Unsigned(0, 8)
  /\ metadata_size_ = Unsigned(0, 8)
  /\ metadata_signature_size_ = Unsigned(0, 4)
  /\ returned = [op |-> "none"]
  /\ num_slots_ = Unsigned(2, 4)
  /\ current_slot_ = Unsigned(0, 4)
  /\ is_bootable_ = <<TRUE, FALSE>>
  /\ is_marked_successful_ = <<FALSE, FALSE>>
  /\ crashed = FALSE
  /\ last_active = <<>>

\* The processor starts the action on an install plan.
PerformAction ==
  /\ phase = "constructed"
  /\ \E plan \in InstallPlans, virtual_ab \in BOOLEAN :
       \E r \in PerformActionFrom(State, plan, virtual_ab) : Becomes(r)

\* The script of the current partition exits; the loop has not yet run the
\* exit callback.
ChildExits ==
  /\ child.status = "running"
  /\ \E code \in ExitCodes :
       child' = [child EXCEPT !.status = "zombie", !.code = code]
  /\ UNCHANGED <<install_plan_, current_partition_, partition_weight_,
                 total_weight_, accumulated_weight_, current_command_,
                 progress_fd_, progress_controller_, progress_buffer_,
                 is_current_command_suspended_, powerwash_scheduled_,
                 delegate_, mounted, phase, log, reports, status_pipe,
                 bytes_read, lines_processed, metadata_vars, boot_vars>>

\* The loop reaps the exited child: Subprocess runs the callback registered
\* by ExecFlags, CompletePartitionPostinstall, unless KillExec discarded it.
OnChildExited ==
  /\ child.status = "zombie"
  /\ LET s == [State EXCEPT !.child = NoChild]
     IN IF child.callback
        THEN \E r \in CompletePartitionPostinstall(
                        Call(s, "ChildExited", current_partition_, child.code),
                        child.code) : Becomes(r)
        ELSE Becomes(s)

\* What the reads of one readable event deliver: up to MaxLines complete
\* lines, the last of them ended by its newline.
Chunks == UNION {[1..n -> ProgressLines] : n \in 0..MaxLines}

\* The loop finds the status pipe readable (bytes written by the child, or
\* its end) while the watcher of progress_fd_ is registered; destroying the
\* watcher cancels the events not yet run.
OnProgressFdReady ==
  /\ progress_controller_
  /\ \E lines \in Chunks, done \in BOOLEAN :
       Becomes(OnProgressFdReadyFrom(State, lines, <<>>, done))

\* The loop finds the status pipe readable and runs the handler on the
\* bytes of the pipe.
OnProgressFdReadyBytes ==
  /\ progress_controller_
  /\ \E r \in OnProgressFdReadyLoop(State) : Becomes(r)

\* The bytes of the status pipe.
Bytes == {"x", "\n"}

\* The running child writes a byte to its status pipe.
ChildWrites ==
  /\ child.status = "running"
  /\ Len(bytes_read) + Len(status_pipe) < MaxStream
  /\ \E b \in Bytes : Becomes([State EXCEPT !.status_pipe = Append(@, b)])

SuspendAction == \E r \in SuspendActionFrom(State) : Becomes(r)

ResumeAction == \E r \in ResumeActionFrom(State) : Becomes(r)

TerminateProcessing == \E r \in TerminateProcessingFrom(State) : Becomes(r)

Next ==
  \/ PerformAction
  \/ ChildExits
  \/ OnChildExited
  \/ SuspendAction
  \/ ResumeAction
  \/ TerminateProcessing

Spec == Init /\ [][Next]_vars

(***************************************************************************)
(* The runner with the status pipe of the child.  What the runner reports  *)
(* does not depend on the slot switch and the powerwash, which act in      *)
(* CompletePostinstall only: the plans of this specification ask for       *)
(* neither.  Their scripts have relative paths: a partition whose script   *)
(* has an absolute path ends the run before a child is launched, as a      *)
(* failed mount of that partition does.                                    *)
(***************************************************************************)
ProgressPlans ==
  {plan \in InstallPlans :
     /\ ~plan.switch_slot_on_reboot
     /\ ~plan.powerwash_required
     /\ \A i \in DOMAIN plan.partitions :
          plan.partitions[i].postinstall_path # PathAbsolute}

\* The processor starts the action on one of these plans.
PerformActionProgress ==
  /\ phase = "constructed"
  /\ \E plan \in ProgressPlans, virtual_ab \in BOOLEAN :
       \E r \in PerformActionFrom(State, plan, virtual_ab) : Becomes(r)

NextProgress ==
  \/ PerformActionProgress
  \/ ChildExits
  \/ OnChildExited
  \/ OnProgressFdReady
  \/ SuspendAction
  \/ ResumeAction
  \/ TerminateProcessing

SpecProgress == Init /\ [][NextProgress]_vars

(***************************************************************************)
(* The runner with the bytes of the status pipe.  The plans have a         *)
(* download_url, ask for no slot switch and no powerwash, and each of      *)
(* their one or two partitions runs a script with a relative path.         *)
(***************************************************************************)
BytePlans ==
  {plan \in ProgressPlans :
     /\ plan.download_url # ""
     /\ plan.run_post_install
     /\ Len(plan.partitions) \in {1, 2}
     /\ \A i \in DOMAIN plan.partitions :
          /\ plan.partitions[i].run_postinstall
          /\ plan.partitions[i].postinstall_path = PathRelative}

PerformActionBytes ==
  /\ phase = "constructed"
  /\ \E plan \in BytePlans :
       \E r \in PerformActionFrom(State, plan, FALSE) : Becomes(r)

NextBytes ==
  \/ PerformActionBytes
  \/ ChildWrites
  \/ OnProgressFdReadyBytes
  \/ ChildExits
  \/ OnChildExited
  \/ TerminateProcessing

SpecBytes == Init /\ [][NextBytes]_vars

(***************************************************************************)
(* The runner with the lines of the status pipe kept: every readable      *)
(* event delivers one line, which `returned` holds.                        *)
(***************************************************************************)
OnProgressFdReadyLines ==
  /\ progress_controller_
  /\ \E line \in ProgressLines, done \in BOOLEAN :
       /\ RunnerBecomes(OnProgressFdReadyFrom(State, <<line>>, <<>>, done))
       /\ returned' = [op |-> "OnProgressFdReady", line |-> line]
  /\ UNCHANGED <<major_payload_version_, manifest_size_, metadata_size_,
                 metadata_signature_size_, boot_vars>>

NextLines ==
  \/ PerformActionBytes
  \/ ChildExits
  \/ OnChildExited
  \/ OnProgressFdReadyLines

SpecLines == Init /\ [][NextLines]_vars

(***************************************************************************)
(* The runner left to finish: every launched script exits, the loop runs   *)
(* the exit callback of every exited script, and nobody suspends or        *)
(* terminates the action.  A script exits with 0, with 1 (the code a       *)
(* failed launch is completed with) or with 3.  The plans ask for no       *)
(* powerwash and run the optional post-install steps: the partitions       *)
(* whose step PerformAction would clear are among the plans as partitions  *)
(* that have no step.                                                      *)
(***************************************************************************)
RunExitCodes == {0, 1, 3}

RunPlans ==
  {plan \in InstallPlans : ~plan.powerwash_required /\ plan.run_post_install}

PerformActionRun ==
  /\ phase = "constructed"
  /\ \E plan \in RunPlans, virtual_ab \in BOOLEAN :
       \E r \in PerformActionFrom(State, plan, virtual_ab) : Becomes(r)

\* The script of the current partition exits with one of these codes.
ChildExitsRun ==
  /\ child.status = "running"
  /\ \E code \in RunExitCodes :
       child' = [child EXCEPT !.status = "zombie", !.code = code]
  /\ UNCHANGED <<install_plan_, current_partition_, partition_weight_,
                 total_weight_, accumulated_weight_, current_command_,
                 progress_fd_, progress_controller_, progress_buffer_,
                 is_current_command_suspended_, powerwash_scheduled_,
                 delegate_, mounted, phase, log, reports, status_pipe,
                 bytes_read, lines_processed, metadata_vars, boot_vars>>

NextRun ==
  \/ PerformActionRun
  \/ ChildExitsRun
  \/ OnChildExited

SpecRun ==
  /\ Init
  /\ [][NextRun]_vars
  /\ WF_vars(ChildExitsRun)
  /\ WF_vars(OnChildExited)

(***************************************************************************)
(* The PayloadMetadata object and the calls made on it.                    *)
(***************************************************************************)
\* The fields of the object as one record.
Metadata ==
  [major_payload_version_ |-> major_payload_version_,
   manifest_size_ |-> manifest_size_,
   metadata_size_ |-> metadata_size_,
   metadata_signature_size_ |-> metadata_signature_size_]

MetadataBecomes(obj) ==
  /\ major_payload_version_' = obj.major_payload_version_
  /\ manifest_size_' = obj.manifest_size_
  /\ metadata_size_' = obj.metadata_size_
  /\ metadata_signature_size_' = obj.metadata_signature_size_

\* ParsePayloadHeader(payload, &error) on a host of either byte order.
\* The object is given the bytes received so far, and again, once more have
\* arrived, while it answers kInsufficientData.
ParsePayloadHeader ==
  /\ \/ returned.op = "none"
     \/ /\ returned.op = "ParsePayloadHeader"
        /\ returned.result = MetadataParseResult_kInsufficientData
  /\ \E payload \in Payloads, little_endian \in BOOLEAN :
       LET r == ParsePayloadHeaderOf(Metadata, payload, little_endian)
       IN /\ MetadataBecomes(r.obj)
          /\ returned' = [op |-> "ParsePayloadHeader", payload |-> payload,
                          result |-> r.result, error |-> r.error]
  /\ UNCHANGED <<runner_vars, boot_vars>>

\* a is the beginning of b.
IsPrefix(a, b) == Len(a) <= Len(b) /\ a = SubSeq(b, 1, Len(a))

\* ValidateMetadataSignature(payload, metadata_signature, payload_verifier)
\* on the object that holds the header it parsed, given the bytes that were
\* parsed and those that have arrived since.
ValidateMetadataSignature ==
  /\ returned.op = "ParsePayloadHeader"
  /\ returned.result = MetadataParseResult_kSuccess
  /\ \E payload \in {p \in Payloads : IsPrefix(returned.payload, p)},
        metadata_signature \in MetadataSignatures,
        hash \in {"failed", "short", "sha256"}, verified \in BOOLEAN :
       LET r == ValidateMetadataSignatureOf(Metadata, payload,
                                            metadata_signature, hash, verified)
       IN returned' = [op |-> "ValidateMetadataSignature",
                       payload |-> payload,
                       metadata_signature |-> metadata_signature,
                       hash |-> hash,
                       verified |-> verified,
                       code |-> r.code,
                       capability |-> r.capability,
                       signature |-> r.signature,
                       hashed |-> r.hashed]
  /\ UNCHANGED <<runner_vars, boot_vars, major_payload_version_,
                 manifest_size_, metadata_size_, metadata_signature_size_>>

NextPayload ==
  \/ ParsePayloadHeader
  \/ ValidateMetadataSignature

SpecPayload == Init /\ [][NextPayload]_vars

\* The slots a name is asked for: the small ones, and among the large ones
\* 256, 2^24, the largest but one and the largest.
Slots ==
  {Unsigned(n, 4) : n \in 0..MaxSlot}
    \cup {<<0, 0, 1, 0>>, <<1, 0, 0, 0>>, <<255, 255, 255, 254>>, kInvalidSlot}

\* BootControlInterface::SlotName(slot), a static function.
SlotNameCalled ==
  /\ \E slot \in Slots :
       returned' = [op |-> "SlotName", slot |-> slot, name |-> SlotName(slot)]
  /\ UNCHANGED <<runner_vars, boot_vars, major_payload_version_,
                 manifest_size_, metadata_size_, metadata_signature_size_>>

NextSlot ==
  \/ SlotNameCalled

SpecSlot == Init /\ [][NextSlot]_vars

\* The slots passed to the fake boot control: those of MaxNumSlots slots,
\* the first past them, and the invalid slot.
BootSlots == {Unsigned(n, 4) : n \in 0..MaxNumSlots} \cup {kInvalidSlot}

BootControl ==
  [num_slots_ |-> num_slots_,
   current_slot_ |-> current_slot_,
   is_bootable_ |-> is_bootable_,
   is_marked_successful_ |-> is_marked_successful_]

\* A call on the object, made while the process lives: it ends as one of its
\* outcomes, and is recorded with its argument (<<>> if it has none).
BootCall(op, slot, outcomes) ==
  /\ \E o \in outcomes :
       /\ num_slots_' = o.obj.num_slots_
       /\ current_slot_' = o.obj.current_slot_
       /\ is_bootable_' = o.obj.is_bootable_
       /\ is_marked_successful_' = o.obj.is_marked_successful_
       /\ crashed' = o.crashed
       /\ returned' = [op |-> op, slot |-> slot, result |-> o.result,
                       callbacks |-> o.callbacks]
       /\ last_active' = IF op = "SetActiveBootSlot" /\ o.result = TRUE
                         THEN <<slot>>
                         ELSE last_active
  /\ UNCHANGED <<runner_vars, major_payload_version_, manifest_size_,
                 metadata_size_, metadata_signature_size_>>

SetNumSlots ==
  /\ ~crashed
  /\ \E n \in 0..MaxNumSlots :
       BootCall("SetNumSlots", Unsigned(n, 4),
                SetNumSlotsOf(BootControl, Unsigned(n, 4)))

SetCurrentSlot ==
  /\ ~crashed
  /\ \E slot \in BootSlots :
       BootCall("SetCurrentSlot", slot, SetCurrentSlotOf(BootControl, slot))

SetSlotBootable ==
  /\ ~crashed
  /\ \E slot \in BootSlots, bootable \in BOOLEAN :
       BootCall("SetSlotBootable", slot,
                SetSlotBootableOf(BootControl, slot, bootable))

MarkSlotUnbootable ==
  /\ ~crashed
  /\ \E slot \in BootSlots :
       BootCall("MarkSlotUnbootable", slot,
                MarkSlotUnbootableOf(BootControl, slot))

SetActiveBootSlot ==
  /\ ~crashed
  /\ \E slot \in BootSlots :
       BootCall("SetActiveBootSlot", slot,
                SetActiveBootSlotOf(BootControl, slot))

GetActiveBootSlot ==
  /\ ~crashed
  /\ BootCall("GetActiveBootSlot", <<>>, GetActiveBootSlotOf(BootControl))

MarkBootSuccessfulAsync ==
  /\ ~crashed
  /\ BootCall("MarkBootSuccessfulAsync", <<>>,
              MarkBootSuccessfulAsyncOf(BootControl))

NextBoot ==
  \/ SetNumSlots
  \/ SetCurrentSlot
  \/ SetSlotBootable
  \/ MarkSlotUnbootable
  \/ SetActiveBootSlot
  \/ GetActiveBootSlot
  \/ MarkBootSuccessfulAsync

SpecBoot == Init /\ [][NextBoot]_vars

(***************************************************************************)
(* The runner on plans whose scripts are named by every kind of path, a    *)
(* path with ".." components included.  All of their partitions have a     *)
(* post-install step, and they ask for neither the slot switch nor the     *)
(* powerwash.                                                              *)
(***************************************************************************)
PathPartitions ==
  [run_postinstall : {TRUE},
   postinstall_optional : BOOLEAN,
   postinstall_path : {PathRelative, PathAbsolute, PathDotDot}]

PathPlans ==
  [partitions : UNION {[1..n -> PathPartitions] : n \in 0..MaxPartitions},
   switch_slot_on_reboot : {FALSE},
   powerwash_required : {FALSE},
   run_post_install : {TRUE},
   download_url : {"url"},
   target_slot : {1}]

\* The processor starts the action on one of these plans.
PerformActionPaths ==
  /\ phase = "constructed"
  /\ \E plan \in PathPlans, virtual_ab \in BOOLEAN :
       \E r \in PerformActionFrom(State, plan, virtual_ab) : Becomes(r)

NextPaths ==
  \/ PerformActionPaths
  \/ ChildExits
  \/ OnChildExited
  \/ TerminateProcessing

SpecPaths == Init /\ [][NextPaths]_vars

(***************************************************************************)
(* Reading the history.                                                    *)
(***************************************************************************)
LogIdx == 1..Len(log)

Count(op) == Cardinality({k \in LogIdx : log[k].op = op})

Completed == phase = "completed"

\* The ErrorCode delivered through ActionComplete ("" while none is).
FinalCode ==
  IF \E k \in LogIdx : log[k].op = "ActionComplete"
  THEN log[CHOOSE k \in LogIdx : log[k].op = "ActionComplete"].code
  ELSE ""

PlanPartitions == 0..(Len(install_plan_.partitions) - 1)

PlanPartition(i) == install_plan_.partitions[i + 1]

\* Before entry k of log: partition i was mounted; its script was launched;
\* its script exited with a code in codes; its launch failed.
MountedBefore(i, k) ==
  \E j \in 1..(k - 1) :
    log[j].op = "MountPartition" /\ log[j].part = i /\ log[j].rc = 1

LaunchedBefore(i, k) ==
  \E j \in 1..(k - 1) :
    log[j].op = "ExecFlags" /\ log[j].part = i /\ log[j].rc # 0

LaunchFailedBefore(i, k) ==
  \E j \in 1..(k - 1) :
    log[j].op = "ExecFlags" /\ log[j].part = i /\ log[j].rc = 0

ExitedBefore(i, codes, k) ==
  \E j \in 1..(k - 1) :
    log[j].op = "ChildExited" /\ log[j].part = i /\ log[j].rc \in codes

\* A call that returned false before entry k of log.
FailedCallBefore(ops, k) ==
  \E j \in 1..(k - 1) : log[j].op \in ops /\ log[j].rc = 0

SlotSwitched == \E k \in LogIdx : log[k].op = "SetActiveBootSlot"

(***************************************************************************)
(* C1.  The slot switch only follows a run whose steps all succeeded.      *)
(***************************************************************************)
\* What C1 asks of the partitions before a SetActiveBootSlot at entry k of
\* log: every partition with a post-install step was mounted and its script
\* exited 0, or failed (exited non-zero or did not launch) on a
\* postinstall_optional partition; every skipped partition with a
\* postinstall_path was mounted.
PartitionsDoneBefore(k) ==
  \A i \in PlanPartitions :
    LET p == PlanPartition(i)
    IN IF p.run_postinstall
       THEN /\ MountedBefore(i, k)
            /\ \/ ExitedBefore(i, {0}, k)
               \/ /\ p.postinstall_optional
                  /\ \/ ExitedBefore(i, ExitCodes \ {0}, k)
                     \/ LaunchFailedBefore(i, k)
       ELSE p.postinstall_path # <<>> => MountedBefore(i, k)

\* What C1 asks besides: the plan asks for the switch, FinishUpdate returned
\* true just before, and neither a mount nor the scheduling of the
\* powerwash (nor MapAllPartitions) failed.
SwitchAllowedAt(k) ==
  /\ install_plan_.switch_slot_on_reboot
  /\ log[k].part = install_plan_.target_slot
  /\ k > 1 /\ log[k - 1].op = "FinishUpdate" /\ log[k - 1].rc = 1
  /\ ~FailedCallBefore({"MapAllPartitions", "SchedulePowerwash", "MountPartition"}, k)
  /\ \A i \in PlanPartitions :
       ~PlanPartition(i).postinstall_optional => ~ExitedBefore(i, ExitCodes \ {0}, k)

\* C1 as stated: in every run, SetActiveBootSlot(target_slot) is called only
\* if switch_slot_on_reboot is true, every partition with
\* run_postinstall=true was mounted and its script exited 0 or failed on a
\* postinstall_optional partition, every skipped partition's probe mount
\* succeeded, FinishUpdate returned true, and no script exit of a required
\* partition, mount or powerwash scheduling failed.
C1_SlotSwitchOnlyAfterAllSteps ==
  \A k \in LogIdx :
    log[k].op = "SetActiveBootSlot" => SwitchAllowedAt(k) /\ PartitionsDoneBefore(k)

\* C1 amended: the same in every run whose download_url is not empty; in a
\* run whose download_url is empty SetActiveBootSlot is called after
\* FinishUpdate returned true although no partition was mounted and no
\* script was run.
C1_SlotSwitchOnlyAfterAllStepsUnlessSkipped ==
  \A k \in LogIdx :
    log[k].op = "SetActiveBootSlot" =>
      /\ SwitchAllowedAt(k)
      /\ IF install_plan_.download_url # ""
         THEN PartitionsDoneBefore(k)
         ELSE Count("MountPartition") = 0 /\ Count("ExecFlags") = 0

\* A slot switch after two partitions: a required one whose script exited
\* 0 and an optional one whose script failed.
C1_Witness ==
  /\ SlotSwitched
  /\ install_plan_.download_url # ""
  /\ \E i, j \in PlanPartitions :
       /\ ~PlanPartition(i).postinstall_optional /\ ExitedBefore(i, {0}, Len(log))
       /\ PlanPartition(j).postinstall_optional /\ ExitedBefore(j, {7}, Len(log))

(***************************************************************************)
(* C2.  The completion sequence of a successful run that switches slots.   *)
(***************************************************************************)
\* The end of the log of a run that delivers kSuccess.
SuccessTail ==
  <<Ev("FinishUpdate", B2N(install_plan_.powerwash_required), 1, ""),
    Ev("SetActiveBootSlot", install_plan_.target_slot, 1, ""),
    Ev("SetWarmReset", -1, 1, ""),
    Ev("SetVbmetaDigestForInactiveSlot", -1, 0, ""),
    Ev("ActionComplete", -1, 0, kSuccess)>>

CompletionCalls ==
  {"FinishUpdate", "SetActiveBootSlot", "SetWarmReset",
   "SetVbmetaDigestForInactiveSlot"}

PartitionCalls ==
  {"MountPartition", "UnmountFilesystem", "ExecFlags", "ChildExited"}

\* A step of the run failed: a call returned false, a script of a required
\* partition exited non-zero or did not launch, the script of a mounted
\* partition has a path that is not allowed, or the unmount of the probe of
\* a required partition failed.
SomeStepFailed ==
  \/ FailedCallBefore({"MapAllPartitions", "SchedulePowerwash", "MountPartition"},
                      Len(log) + 1)
  \/ \E k \in LogIdx :
       /\ log[k].part \in PlanPartitions
       /\ LET p == PlanPartition(log[k].part)
          IN \/ /\ log[k].op = "ChildExited" /\ log[k].rc # 0
                /\ ~p.postinstall_optional
             \/ /\ log[k].op = "ExecFlags" /\ log[k].rc = 0
                /\ ~p.postinstall_optional
             \/ /\ log[k].op = "MountPartition" /\ log[k].rc = 1
                /\ p.run_postinstall
                /\ IsAbsolute(p.postinstall_path)
             \/ /\ log[k].op = "UnmountFilesystem" /\ log[k].rc = 0
                /\ k > 1 /\ log[k - 1].op = "MountPartition"
                /\ ~p.run_postinstall
                /\ ~p.postinstall_optional

\* C2: when all partition steps succeed and switch_slot_on_reboot is true,
\* the runner calls FinishUpdate(powerwash_required) exactly once, after the
\* last mount, unmount, launch or exit of a partition; the run that
\* delivers kSuccess has called, each exactly once, in this order and each
\* returning true where it returns a result, FinishUpdate(powerwash_required),
\* SetActiveBootSlot(target_slot), SetWarmReset(true),
\* SetVbmetaDigestForInactiveSlot(false), after every partition call and
\* immediately before ActionComplete(kSuccess); and kSuccess is what such a
\* run delivers when FinishUpdate and SetActiveBootSlot return true.
C2_CompletionSequence ==
  /\ (Completed /\ install_plan_.switch_slot_on_reboot /\ ~SomeStepFailed) =>
       /\ Count("FinishUpdate") = 1
       /\ \A k, j \in LogIdx :
            (log[k].op = "FinishUpdate" /\ log[j].op \in PartitionCalls) => j < k
       /\ (\/ FailedCallBefore({"FinishUpdate", "SetActiveBootSlot"}, Len(log))
           \/ FinalCode = kSuccess)
  /\ FinalCode = kSuccess =>
       /\ install_plan_.switch_slot_on_reboot
       /\ Len(log) >= Len(SuccessTail)
       /\ SubSeq(log, Len(log) - Len(SuccessTail) + 1, Len(log)) = SuccessTail
       /\ \A op \in CompletionCalls : Count(op) = 1
       /\ ~SomeStepFailed

\* kSuccess delivered after the scripts of two partitions ran and their
\* filesystems were unmounted.
C2_Witness ==
  /\ FinalCode = kSuccess
  /\ Count("ChildExited") = 2
  /\ Count("UnmountFilesystem") >= 2

(***************************************************************************)
(* C3, C4, C5.  Exit codes.                                                *)
(***************************************************************************)
\* The run ended at entry k of log, the exit of a script: what follows is
\* the unmount of Cleanup, the cancellation of a scheduled powerwash, and
\* the delivery of code; no partition is mounted or launched and no slot
\* switch is made after it.
AbortedAt(k, code) ==
  /\ Completed
  /\ FinalCode = code
  /\ current_partition_ = log[k].part
  /\ \A j \in (k + 1)..Len(log) :
       log[j].op \in {"UnmountFilesystem", "CancelPowerwash", "ActionComplete"}
  /\ ~SlotSwitched

\* The run went on after entry k of log, the exit of a script: the cursor
\* is past the partition, the filesystem was unmounted, and what follows is
\* not the delivery of an error code.
WentOnAt(k) ==
  /\ current_partition_ > log[k].part
  /\ log[k + 1].op = "UnmountFilesystem"
  /\ k + 2 <= Len(log) =>
       /\ log[k + 2].op # "CancelPowerwash"
       /\ log[k + 2].op = "ActionComplete" => log[k + 2].code = kUpdatedButNotActive

\* C3 as stated: for any partition, postinstall_optional or not, a child
\* exit code of 3 ends the run with kPostinstallBootedFromFirmwareB and one
\* of 4 with kPostinstallFirmwareRONotUpdatable; no later partition is
\* processed and no slot switch happens.
C3_FirmwareCodesAbortAnyPartition ==
  \A k \in LogIdx :
    (log[k].op = "ChildExited" /\ log[k].rc \in {3, 4}) =>
      AbortedAt(k, IF log[k].rc = 3 THEN kPostinstallBootedFromFirmwareB
                   ELSE kPostinstallFirmwareRONotUpdatable)

\* C3 amended: that holds for every partition that is not
\* postinstall_optional; on a postinstall_optional partition an exit code
\* of 3 or 4 is ignored like any other failure: the partition is unmounted,
\* the cursor moves past it and the run goes on.
C3_FirmwareCodesAbortRequiredPartition ==
  \A k \in LogIdx :
    (log[k].op = "ChildExited" /\ log[k].rc \in {3, 4}) =>
      IF PlanPartition(log[k].part).postinstall_optional
      THEN WentOnAt(k)
      ELSE AbortedAt(k, IF log[k].rc = 3 THEN kPostinstallBootedFromFirmwareB
                        ELSE kPostinstallFirmwareRONotUpdatable)

\* The first script, of a required partition of a plan of two, exited 3;
\* and, in another run, the script of an optional partition exited 4 and
\* the run went on to switch slots.
C3_Witness ==
  \/ /\ Len(install_plan_.partitions) = 2
     /\ ~PlanPartition(0).postinstall_optional
     /\ \E k \in LogIdx : log[k] = Ev("ChildExited", 0, 3, "")
     /\ FinalCode = kPostinstallBootedFromFirmwareB
  \/ /\ \E k \in LogIdx : log[k] = Ev("ChildExited", 0, 4, "")
     /\ PlanPartition(0).postinstall_optional
     /\ FinalCode = kSuccess

\* C4: for a partition with postinstall_optional=false the exit code of its
\* script decides: 0 moves the cursor to the next partition after the
\* unmount, and no error code is delivered on its account; 3 delivers kPostinstallBootedFromFirmwareB, 4
\* kPostinstallFirmwareRONotUpdatable and any other non-zero code
\* kPostinstallRunnerError, with the cursor left on the partition.
C4_ExitCodeOfRequiredPartition ==
  \A k \in LogIdx :
    (log[k].op = "ChildExited" /\ ~PlanPartition(log[k].part).postinstall_optional) =>
      LET i == log[k].part
          rc == log[k].rc
      IN IF rc = 0
         THEN WentOnAt(k)
         ELSE /\ Completed
              /\ current_partition_ = i
              /\ FinalCode = (IF rc = 3 THEN kPostinstallBootedFromFirmwareB
                              ELSE IF rc = 4 THEN kPostinstallFirmwareRONotUpdatable
                              ELSE kPostinstallRunnerError)

\* Scripts of required partitions exited 0 and then 7.
C4_Witness ==
  /\ \E k \in LogIdx : log[k] = Ev("ChildExited", 0, 0, "")
  /\ \E k \in LogIdx : log[k] = Ev("ChildExited", 1, 7, "")
  /\ ~PlanPartition(0).postinstall_optional
  /\ ~PlanPartition(1).postinstall_optional
  /\ FinalCode = kPostinstallRunnerError

\* C5: when the script of a postinstall_optional partition exits with a
\* non-zero code other than 3 or 4, the failure is not surfaced: the
\* partition is unmounted (Cleanup calls UnmountFilesystem), the cursor
\* moves to the next partition, and the run goes on as after an exit code
\* of 0; kPostinstallRunnerError, when it is delivered, is never on account
\* of that exit: a later step failed.  And while the exit of the script of
\* an optional partition waits to be handled, every state the handler can
\* end in for such an exit code is one it can end in for 0, and conversely.
C5_OptionalFailureIgnored ==
  /\ (/\ child.status = "zombie" /\ child.callback
      /\ PlanPartition(current_partition_).postinstall_optional) =>
       \A rc \in ExitCodes \ {0, 3, 4} :
         CompletePartitionPostinstall(State, rc) = CompletePartitionPostinstall(State, 0)
  /\ \A k \in LogIdx :
    (/\ log[k].op = "ChildExited"
     /\ log[k].rc \notin {0, 3, 4}
     /\ PlanPartition(log[k].part).postinstall_optional) =>
      /\ WentOnAt(k)
      /\ accumulated_weight_ >= 1
      /\ (Completed /\ ~(\E j \in (k + 2)..Len(log) :
                            \/ log[j].op \in {"MountPartition", "ExecFlags",
                                              "FinishUpdate", "SetActiveBootSlot"}
                                 /\ log[j].rc = 0
                            \/ log[j].op = "ChildExited" /\ log[j].rc # 0
                            \/ /\ log[j].op = "MountPartition"
                               /\ IsAbsolute(PlanPartition(log[j].part).postinstall_path)
                               /\ PlanPartition(log[j].part).run_postinstall
                            \/ log[j].op = "UnmountFilesystem" /\ log[j].rc = 0)) =>
           FinalCode = (IF install_plan_.switch_slot_on_reboot
                        THEN kSuccess ELSE kUpdatedButNotActive)

\* The script of the only partition, an optional one, exited 7 and the run
\* delivered kSuccess after the slot switch.
C5_Witness ==
  /\ Len(install_plan_.partitions) = 1
  /\ PlanPartition(0).postinstall_optional
  /\ \E k \in LogIdx : log[k] = Ev("ChildExited", 0, 7, "")
  /\ SlotSwitched
  /\ FinalCode = kSuccess

(***************************************************************************)
(* C6.  Path safety.                                                       *)
(***************************************************************************)
\* The postinstall_path is absolute, or its join with fs_mount_dir_ does
\* not begin with fs_mount_dir_.
PathViolation(postinstall_path) ==
  \/ Len(postinstall_path) > 0 /\ postinstall_path[1] = "/"
  \/ ~StartsWith(FilePathAppend(fs_mount_dir_, postinstall_path), fs_mount_dir_)

FailureDelivered ==
  Completed /\ FinalCode \notin {kSuccess, kUpdatedButNotActive}

PowerwashWasScheduled ==
  \E k \in LogIdx : log[k].op = "SchedulePowerwash" /\ log[k].rc = 1

\* C7 as stated: in every run with powerwash_required=true whose final code
\* is neither kSuccess nor kUpdatedButNotActive, CancelPowerwash has been
\* called exactly once when the code is delivered, the runs that fail at
\* MapAllPartitions or at SchedulePowerwash included.
C7_CancelledWheneverRequired ==
  (FailureDelivered /\ install_plan_.powerwash_required) =>
    Count("CancelPowerwash") = 1

\* C7 amended: in every run with powerwash_required=true whose final code is
\* neither kSuccess nor kUpdatedButNotActive, CancelPowerwash has been
\* called exactly once when the code is delivered if SchedulePowerwash
\* succeeded in the run, and not at all if it did not: the runs that fail at
\* MapAllPartitions (before SchedulePowerwash is called) or at
\* SchedulePowerwash itself do not call it.
C7_CancelledWheneverScheduled ==
  (FailureDelivered /\ install_plan_.powerwash_required) =>
    /\ Count("CancelPowerwash") = (IF PowerwashWasScheduled THEN 1 ELSE 0)
    /\ PowerwashWasScheduled <=> powerwash_scheduled_
    /\ ~PowerwashWasScheduled <=>
         FailedCallBefore({"MapAllPartitions", "SchedulePowerwash"}, Len(log))

\* A run with a scheduled powerwash that ended on the exit code of a script,
\* and the powerwash was cancelled.
C7_Witness ==
  /\ FailureDelivered
  /\ PowerwashWasScheduled
  /\ \E k \in LogIdx : log[k].op = "ChildExited" /\ log[k].rc = 7
  /\ Count("CancelPowerwash") = 1

\* C8: whenever SchedulePowerwash succeeded in a run and the final code is
\* neither kSuccess nor kUpdatedButNotActive, CancelPowerwash is called
\* before ActionComplete (it is the call just before it); CancelPowerwash is
\* never called in a run whose final code is kSuccess or
\* kUpdatedButNotActive, nor before the run ends.
C8_CancelBeforeCompletion ==
  /\ (FailureDelivered /\ PowerwashWasScheduled) =>
       /\ Len(log) >= 2
       /\ log[Len(log)].op = "ActionComplete"
       /\ log[Len(log) - 1].op = "CancelPowerwash"
  /\ Count("CancelPowerwash") > 0 => FailureDelivered

\* The code that CompletePostinstall was called with was kSuccess, the slot
\* switch failed, and the scheduled powerwash was cancelled before the
\* delivery of kPostinstallRunnerError.
C8_Witness ==
  /\ FailureDelivered
  /\ PowerwashWasScheduled
  /\ FailedCallBefore({"FinishUpdate", "SetActiveBootSlot"}, Len(log))
  /\ Count("CancelPowerwash") = 1

(***************************************************************************)
(* C9.  Serialized partition steps.                                        *)
(***************************************************************************)
\* The calls about partitions, as far as their order goes: a script is
\* launched right after the mount of its own partition succeeded, and a
\* partition is mounted only when no child is left and after the unmount
\* that followed the exit of the previous script has returned.
C9_CallsSerialized ==
  /\ phase = "running" => current_command_ = child.pid
  /\ \A k \in LogIdx :
       /\ (log[k].op = "ExecFlags") =>
            k > 1 /\ log[k - 1] = Ev("MountPartition", log[k].part, 1, "")
       /\ (log[k].op = "ChildExited") =>
            k < Len(log) /\ log[k + 1].op = "UnmountFilesystem"
       /\ (log[k].op = "MountPartition") =>
            \A j \in 1..(k - 1) :
              (log[j].op = "ExecFlags" /\ log[j].rc # 0) =>
                \E e \in (j + 1)..(k - 2) :
                  /\ log[e].op = "ChildExited" /\ log[e].part = log[j].part
                  /\ log[e + 1].op = "UnmountFilesystem"

\* C9: partition steps are strictly serialized: at any time at most one
\* filesystem is mounted at fs_mount_dir and at most one child is running;
\* a child is launched only after its own partition's mount succeeded; the
\* next partition is mounted only after the previous partition's child has
\* exited and its unmount has returned.
C9_StrictlySerialized ==
  /\ Len(mounted) <= 1
  /\ C9_CallsSerialized

(***************************************************************************)
(* C10.  Exactly one completion.                                           *)
(***************************************************************************)
\* C10: a PerformAction that is not terminated delivers exactly one
\* ErrorCode through ActionComplete: never two; none only while the script
\* of the current partition is still to exit and its exit callback is
\* registered; every handler that leaves no such child behind has delivered
\* one.  The delivery is the last call of the run: no mount, launch or
\* boot-control call follows it.
C10_ExactlyOneCompletion ==
  /\ Count("ActionComplete") <= 1
  /\ Completed <=> Count("ActionComplete") = 1
  /\ Completed =>
       /\ log[Len(log)].op = "ActionComplete"
       /\ log[Len(log)].code \in
            {kSuccess, kUpdatedButNotActive, kPostInstallMountError,
             kPostinstallRunnerError, kPostinstallBootedFromFirmwareB,
             kPostinstallFirmwareRONotUpdatable, kPostinstallPowerwashError}
       /\ current_command_ = 0
       /\ child.status = "none"
  /\ phase = "running" =>
       /\ current_command_ # 0
       /\ child.pid = current_command_
       /\ child.status \in {"running", "stopped", "zombie"}
       /\ child.callback
  /\ phase = "constructed" => log = <<>>

\* A run of two partitions that delivered its one code after the launch of
\* the second script failed.
C10_Witness ==
  /\ Completed
  /\ Count("ActionComplete") = 1
  /\ \E k \in LogIdx : log[k] = Ev("ChildExited", 0, 0, "")
  /\ \E k \in LogIdx : log[k] = Ev("ExecFlags", 1, 0, "")

(***************************************************************************)
(* C11: after TerminateProcessing has returned, whatever events of the     *)
(* terminated child are still to come (its status pipe readable, its       *)
(* exit), no callback of that child runs: the watcher of the pipe and the  *)
(* exit callback are gone, and no step reports a progress value, runs      *)
(* CompletePartitionPostinstall, moves the cursor or makes any other call. *)
(***************************************************************************)
C11_NoCallbackAfterTerminate ==
  [][phase = "terminated" =>
       /\ ~progress_controller_ /\ ~progress_controller_'
       /\ ~child.callback /\ ~child'.callback
       /\ reports' = reports
       /\ log' = log
       /\ current_partition_' = current_partition_
       /\ phase' = "terminated"]_vars

\* The run was terminated after a progress line of the child had been
\* reported, and the exit of the terminated child is still to be handled.
C11_Witness ==
  /\ phase = "terminated"
  /\ child.status = "zombie"
  /\ reports # <<>>
  /\ 0 < reports[1].num /\ reports[1].num < reports[1].den
  /\ log[Len(log)].op = "UnmountFilesystem"

(***************************************************************************)
(* C12: when the run scheduled a powerwash (SchedulePowerwash returned     *)
(* true) and is cancelled by TerminateProcessing while a child is running, *)
(* CancelPowerwash has been called when TerminateProcessing returns.       *)
(***************************************************************************)
C12_TerminateCancelsPowerwash ==
  (phase = "terminated" /\ powerwash_scheduled_) => Count("CancelPowerwash") >= 1

(***************************************************************************)
(* C13: a completed run of a plan with switch_slot_on_reboot false in      *)
(* which no step failed delivers kUpdatedButNotActive and has called none  *)
(* of FinishUpdate, SetActiveBootSlot, SetWarmReset,                       *)
(* SetVbmetaDigestForInactiveSlot and CancelPowerwash; and                 *)
(* kUpdatedButNotActive is delivered by such runs only.                    *)
(***************************************************************************)
C13_UpdatedButNotActive ==
  /\ (Completed /\ ~install_plan_.switch_slot_on_reboot /\ ~SomeStepFailed) =>
       /\ FinalCode = kUpdatedButNotActive
       /\ \A op \in CompletionCalls \cup {"CancelPowerwash"} : Count(op) = 0
  /\ FinalCode = kUpdatedButNotActive =>
       /\ ~install_plan_.switch_slot_on_reboot
       /\ ~SomeStepFailed

\* kUpdatedButNotActive delivered, with a powerwash scheduled, after the
\* scripts of two partitions ran.
C13_Witness ==
  /\ FinalCode = kUpdatedButNotActive
  /\ powerwash_scheduled_
  /\ Count("ChildExited") = 2
  /\ Count("UnmountFilesystem") >= 2

(***************************************************************************)
(* C14: every value the runner passes to ProgressUpdate lies in [0, 1]:    *)
(* the value last passed does, and so does the value any line of the       *)
(* status pipe (NaN, an infinity, a negative value, a value above 1        *)
(* included) would make the runner pass in the state it is in; and         *)
(* accumulated_weight_ plus the weight of the current partition never      *)
(* exceeds total_weight_.                                                  *)
(***************************************************************************)
InUnitInterval(report) ==
  /\ report.den > 0
  /\ 0 <= report.num
  /\ report.num <= report.den

C14_ProgressWithinBounds ==
  /\ \A k \in DOMAIN reports : InUnitInterval(reports[k])
  /\ \A line \in ProgressLines :
       LET after == ProcessProgressLine(State, line).reports
       IN \A k \in DOMAIN after : InUnitInterval(after[k])
  /\ accumulated_weight_ <= total_weight_
  /\ current_partition_ < Len(partition_weight_) =>
       accumulated_weight_ + partition_weight_[current_partition_ + 1]
         <= total_weight_

\* The second of two weighted partitions is current, and a line of its
\* script made the runner report a value strictly inside its share.
C14_Witness ==
  /\ total_weight_ = 2
  /\ current_partition_ = 1
  /\ child.status = "running"
  /\ reports # <<>>
  /\ accumulated_weight_ * FracDen < reports[1].num
  /\ reports[1].num < reports[1].den

(***************************************************************************)
(* C15: the reported values and the cursor.                                *)
(***************************************************************************)
\* report a is at most report b (as rationals).
ReportLeq(a, b) == a.num * b.den <= b.num * a.den

\* Every partition of the plan runs a post-install step.
AllRunPostinstall ==
  /\ install_plan_.partitions # <<>>
  /\ \A i \in DOMAIN install_plan_.partitions :
       install_plan_.partitions[i].run_postinstall

\* The value last reported lies in the share of the current partition:
\* between accumulated_weight_ / total_weight_ and that plus the weight of
\* the current partition; it is 1 when there is no weight or no partition
\* left.
ReportInShare ==
  reports # <<>> =>
    LET r == reports[1]
    IN IF total_weight_ = 0 \/ current_partition_ >= Len(partition_weight_)
       THEN r.num = r.den
       ELSE /\ r.den = total_weight_ * FracDen
            /\ accumulated_weight_ * FracDen <= r.num
            /\ r.num <= (accumulated_weight_
                           + partition_weight_[current_partition_ + 1]) * FracDen

\* C15 as stated: in a run where all partitions have run_postinstall=true,
\* the sequence of values reported to the delegate is non-decreasing: every
\* value reported is at least the value reported before it.
C15_ReportsNeverDecrease ==
  [][(AllRunPostinstall /\ reports # <<>> /\ reports' # <<>>) =>
       ReportLeq(reports[1], reports'[1])]_vars

\* C15, amended: the reported values are non-decreasing across the
\* positions of the cursor.  The cursor and accumulated_weight_ never
\* decrease; every value reported lies in the share of the partition that
\* is current; and a value reported after the cursor has advanced is at
\* least the value reported before.  (Within one partition the values
\* follow the fractions the script writes.)
C15_ReportsFollowCursor ==
  [][/\ current_partition_' >= current_partition_
     /\ accumulated_weight_' >= accumulated_weight_
     /\ ReportInShare'
     /\ (/\ reports # <<>> /\ reports' # <<>>
         /\ current_partition_' > current_partition_) =>
          ReportLeq(reports[1], reports'[1])]_vars

\* Both partitions of a plan ran their step; the value reported when the
\* cursor reached the second is half, the one at the end is 1.
C15_Witness ==
  /\ AllRunPostinstall
  /\ Len(install_plan_.partitions) = 2
  /\ current_partition_ = 2
  /\ Completed
  /\ Count("ChildExited") = 2
  /\ reports # <<>> /\ reports[1].num = reports[1].den

(***************************************************************************)
(* Claims about PayloadMetadata.                                           *)
(***************************************************************************)
\* ParsePayloadHeader has just returned.
ParseReturned == returned.op = "ParsePayloadHeader"

\* The first bytes of the payload just parsed are the magic.
MagicMatches ==
  SubSeq(returned.payload, 1, Len(kDeltaMagic)) = kDeltaMagic

\* The parse just returned Error with the given code.
ParseFailedWith(code) ==
  /\ returned.result = MetadataParseResult_kError
  /\ returned.error = code

\* C16, as stated: ParsePayloadHeader returns InsufficientData if and only if
\* the input has fewer than 20 bytes, and every input of at least 20 bytes
\* whose first 4 bytes are not the magic gives Error with
\* DownloadInvalidMetadataMagicString.
C16_InsufficientBelowTwenty ==
  ParseReturned =>
    /\ (returned.result = MetadataParseResult_kInsufficientData)
         <=> (Len(returned.payload) < GetMetadataSignatureSizeOffset)
    /\ (Len(returned.payload) >= GetMetadataSignatureSizeOffset /\ ~MagicMatches)
         => ParseFailedWith(kDownloadInvalidMetadataMagicString)

\* C16, amended: ParsePayloadHeader returns InsufficientData if and only if
\* the input has fewer than 12 bytes, or has fewer than 24 bytes and begins
\* with the magic; every input of at least 12 bytes whose first 4 bytes are
\* not the magic gives Error with DownloadInvalidMetadataMagicString.
C16_InsufficientBeforeMagicAndSizes ==
  ParseReturned =>
    /\ (returned.result = MetadataParseResult_kInsufficientData)
         <=> \/ Len(returned.payload) < kDeltaManifestSizeOffset
             \/ (Len(returned.payload) < GetManifestOffset /\ MagicMatches)
    /\ (Len(returned.payload) >= kDeltaManifestSizeOffset /\ ~MagicMatches)
         => ParseFailedWith(kDownloadInvalidMetadataMagicString)

\* A parse of 12 to 19 bytes that do not begin with the magic was refused
\* for its magic, and so was answered before 20 bytes had arrived.
C16_Witness ==
  /\ ParseReturned
  /\ Len(returned.payload) >= kDeltaManifestSizeOffset
  /\ Len(returned.payload) < GetMetadataSignatureSizeOffset
  /\ ~MagicMatches
  /\ ParseFailedWith(kDownloadInvalidMetadataMagicString)

\* The unsigned integer of the given bytes of the payload just passed, which
\* holds it most significant byte first.
Field(offset, size) == SubSeq(returned.payload, offset + 1, offset + size)

\* The sum of two unsigned integers of the same width exceeds the width:
\* b is more than what separates a from the largest value.
Wraps(a, b) == UnsignedLess([i \in 1..Len(a) |-> 255 - a[i]], b)

\* The payload just parsed has the 24 bytes of a header, the magic and a
\* supported major version.
WellFormedHeader ==
  /\ Len(returned.payload) >= GetManifestOffset
  /\ MagicMatches
  /\ ~UnsignedLess(Field(kDeltaVersionOffset, kDeltaVersionSize),
                   Unsigned(kMinSupportedMajorPayloadVersion, 8))
  /\ ~UnsignedLess(Unsigned(kMaxSupportedMajorPayloadVersion, 8),
                   Field(kDeltaVersionOffset, kDeltaVersionSize))

\* 24 + manifest_size exceeds 64 bits.
ManifestSizeWraps ==
  Wraps(Unsigned(GetManifestOffset, 8),
        Field(kDeltaManifestSizeOffset, kDeltaManifestSizeSize))

\* 24 + manifest_size fits in 64 bits and the signature size added to it
\* does not.
SignatureSizeWraps ==
  /\ ~ManifestSizeWraps
  /\ Wraps(UnsignedAdd(Unsigned(GetManifestOffset, 8),
                       Field(kDeltaManifestSizeOffset, kDeltaManifestSizeSize)),
           Widen(Field(GetMetadataSignatureSizeOffset,
                       kDeltaMetadataSignatureSizeSize), 8))

\* C17: for a header of at least 24 bytes with the magic and a supported
\* version, if 24 + manifest_size or that sum + metadata_signature_size
\* wraps modulo 2^64, ParsePayloadHeader returns Error with
\* DownloadInvalidMetadataSize, and never Success.
C17_WrapIsInvalidMetadataSize ==
  (ParseReturned /\ WellFormedHeader
     /\ (ManifestSizeWraps \/ SignatureSizeWraps))
    => ParseFailedWith(kDownloadInvalidMetadataSize)

\* A header whose manifest size fits and whose signature size makes the sum
\* wrap was parsed and refused for its metadata size.
C17_Witness ==
  /\ ParseReturned /\ WellFormedHeader /\ SignatureSizeWraps
  /\ ParseFailedWith(kDownloadInvalidMetadataSize)
  /\ metadata_signature_size_ # Unsigned(0, 4)

\* ValidateMetadataSignature has just returned.
ValidateReturned == returned.op = "ValidateMetadataSignature"

\* The payload just validated has the metadata and the signature that the
\* parsed header announces.
PayloadCoversSignature ==
  /\ IsSmall(metadata_size_)
  /\ IsSmall(metadata_signature_size_)
  /\ Len(returned.payload)
       >= Small(metadata_size_) + Small(metadata_signature_size_)

\* The capability that goes with the source of the signature was called with
\* that signature.
MatchingCapabilityCalled ==
  IF returned.metadata_signature # <<>>
  THEN /\ returned.capability = "VerifyRawSignature"
       /\ Base64Decode(returned.metadata_signature).ok
       /\ returned.signature = Base64Decode(returned.metadata_signature).blob
  ELSE /\ returned.capability = "VerifySignature"
       /\ returned.signature
            = SubSeq(returned.payload, Small(metadata_size_) + 1,
                     Small(metadata_size_) + Small(metadata_signature_size_))

\* C18: ValidateMetadataSignature returns Success only if the payload has at
\* least metadata_size + metadata_signature_size bytes and the capability
\* matching the source of the signature (VerifyRawSignature on the decoded
\* out-of-band signature when one is supplied, otherwise VerifySignature on
\* the embedded bytes) returned true for the SHA-256 of the first
\* metadata_size bytes; whenever the capability returns false the result is
\* DownloadMetadataSignatureMismatch.
C18_SuccessOnlyIfVerified ==
  ValidateReturned =>
    /\ returned.code = kSuccess =>
         /\ PayloadCoversSignature
         /\ MatchingCapabilityCalled
         /\ returned.verified
         /\ returned.hash = "sha256"
         /\ returned.hashed = SubSeq(returned.payload, 1, Small(metadata_size_))
    /\ (returned.capability # "" /\ ~returned.verified) =>
         returned.code = kDownloadMetadataSignatureMismatch

\* A payload without out-of-band signature was accepted on the signature it
\* embeds after its metadata.
C18_Witness ==
  /\ ValidateReturned
  /\ returned.code = kSuccess
  /\ returned.metadata_signature = <<>>
  /\ returned.capability = "VerifySignature"
  /\ returned.signature # <<>>

\* The out-of-band signature just passed, decoded; none if none was passed.
RawSignature ==
  IF returned.metadata_signature = <<>> THEN <<>>
  ELSE Base64Decode(returned.metadata_signature).blob

\* The signature container the payload just validated embeds after its
\* metadata.
EmbeddedContainer ==
  SubSeq(returned.payload, Small(metadata_size_) + 1,
         Small(metadata_size_) + Small(metadata_signature_size_))

\* The call just returned got past the check of the payload's size and the
\* decoding of the out-of-band signature.
SignaturesExamined ==
  /\ ValidateReturned
  /\ PayloadCoversSignature
  /\ returned.metadata_signature # <<>>
       => Base64Decode(returned.metadata_signature).ok

\* C19: ValidateMetadataSignature returns
\* DownloadMetadataSignatureMissingError exactly when both the decoded
\* out-of-band signature and the payload's embedded signature container are
\* empty; a payload that embeds a non-empty container never gets the Missing
\* error.
C19_MissingOnlyWhenBothEmpty ==
  SignaturesExamined =>
    /\ (returned.code = kDownloadMetadataSignatureMissingError)
         <=> (RawSignature = <<>> /\ EmbeddedContainer = <<>>)
    /\ EmbeddedContainer # <<>>
         => returned.code # kDownloadMetadataSignatureMissingError

(***************************************************************************)
(* Claims about BootControlInterface.                                      *)
(***************************************************************************)
\* SlotName has just returned.
SlotNameReturned == returned.op = "SlotName"

\* The number a slot of 32 bits stands for is below the given small number.
SlotBelow(slot, n) ==
  /\ \A i \in 1..3 : slot[i] = 0
  /\ slot[4] < n

\* C20: SlotName(s) is the one-character string 'A' + s for 0 <= s < 26,
\* "INVALID" for the invalid slot, the largest value of the slot type, and
\* "TOO_BIG" for every other s >= 26.
C20_SlotName ==
  SlotNameReturned =>
    returned.name =
      CASE SlotBelow(returned.slot, 26) -> <<65 + returned.slot[4]>>
        [] returned.slot = <<255, 255, 255, 255>> ->
             <<73, 78, 86, 65, 76, 73, 68>>
        [] OTHER -> <<84, 79, 79, 95, 66, 73, 71>>

\* The name of the invalid slot was asked for and was "INVALID".
C20_Witness ==
  /\ SlotNameReturned
  /\ returned.slot = kInvalidSlot
  /\ returned.name = kInvalidName

\* The name of slot 25 was asked for and was "Z".
C20_WitnessLastLetter ==
  /\ SlotNameReturned
  /\ returned.slot = Unsigned(25, 4)
  /\ returned.name = <<90>>

(***************************************************************************)
(* Claims about the boot-slot controller (FakeBootControl).                *)
(***************************************************************************)
\* The numbers of the slots the controller has.
SlotNumbers == 0..(Small(num_slots_) - 1)

\* C21: in every state of the boot-slot controller, MarkSlotUnbootable(s)
\* for a slot s < num_slots returns true and leaves s not bootable, the
\* bootable flag of every other slot, the successful flag of every slot,
\* the current slot and num_slots being as before; for s >= num_slots
\* (the invalid slot included) it returns false and changes nothing.
C21_MarkSlotUnbootable ==
  [][returned'.op = "MarkSlotUnbootable" =>
       /\ ~crashed'
       /\ num_slots_' = num_slots_
       /\ current_slot_' = current_slot_
       /\ is_marked_successful_' = is_marked_successful_
       /\ Len(is_bootable_') = Len(is_bootable_)
       /\ IF IsSmall(returned'.slot) /\ Small(returned'.slot) \in SlotNumbers
          THEN /\ returned'.result = TRUE
               /\ ~IsSlotBootable(BootControl', returned'.slot)
               /\ \A n \in SlotNumbers \ {Small(returned'.slot)} :
                    is_bootable_'[n + 1] = is_bootable_[n + 1]
          ELSE /\ returned'.result = FALSE
               /\ is_bootable_' = is_bootable_]_vars

\* Slot 0, bootable and marked successful, was made unbootable while slot 1
\* stayed bootable and slot 0 kept its mark.
C21_Witness ==
  /\ returned.op = "MarkSlotUnbootable"
  /\ returned.slot = Unsigned(0, 4)
  /\ returned.result = TRUE
  /\ ~IsSlotBootable(BootControl, Unsigned(0, 4))
  /\ IsSlotBootable(BootControl, Unsigned(1, 4))
  /\ IsSlotMarkedSuccessful(BootControl, Unsigned(0, 4))

\* The last operation on the controller was a MarkBootSuccessfulAsync that
\* ran its callback, which the fake always runs with true.
MarkedSuccessfully ==
  /\ returned.op = "MarkBootSuccessfulAsync"
  /\ returned.callbacks >= 1

\* C22: after any sequence of operations on the boot-slot controller that
\* ends with a MarkBootSuccessfulAsync whose callback reported success,
\* current_slot < num_slots, and the current slot is marked successful and
\* bootable.
C22_CurrentSlotAfterMark ==
  MarkedSuccessfully =>
    /\ IsSmall(current_slot_) /\ Small(current_slot_) \in SlotNumbers
    /\ IsSlotMarkedSuccessful(BootControl, current_slot_)
    /\ IsSlotBootable(BootControl, current_slot_)

C24_MarkBootSuccessfulIdempotent ==
  [][returned'.op = "MarkBootSuccessfulAsync" =>
       /\ num_slots_' = num_slots_
       /\ current_slot_' = current_slot_
       /\ is_bootable_' = is_bootable_
       /\ Len(is_marked_successful_') = Len(is_marked_successful_)
       /\ \A i \in 1..Len(is_marked_successful_) :
            is_marked_successful_'[i] # is_marked_successful_[i]
              => (IsSmall(current_slot_) /\ i = Small(current_slot_) + 1)
       /\ returned.op = "MarkBootSuccessfulAsync" => BootControl' = BootControl
       /\ (~crashed' /\ returned'.result) => returned'.callbacks = 1]_vars

(***************************************************************************)
(* C25: when install_plan.download_url is empty no partition is mounted    *)
(* and no child is launched, whatever the flags of the partitions; and the *)
(* run in which MapAllPartitions and the scheduling of the powerwash did   *)
(* not fail completes as a success: with kSuccess after the slot-switch    *)
(* sequence if switch_slot_on_reboot (FinishUpdate and SetActiveBootSlot   *)
(* returning true), with kUpdatedButNotActive otherwise.                   *)
(***************************************************************************)
C25_EmptyUrlSkipsPostinstall ==
  (phase # "constructed" /\ install_plan_.download_url = "") =>
    /\ \A op \in PartitionCalls \cup {"KillExec"} : Count(op) = 0
    /\ mounted = <<>>
    /\ child = NoChild
    /\ phase = "completed"
    /\ ~FailedCallBefore({"MapAllPartitions", "SchedulePowerwash"}, Len(log) + 1) =>
         IF install_plan_.switch_slot_on_reboot
         THEN \/ FailedCallBefore({"FinishUpdate", "SetActiveBootSlot"}, Len(log))
              \/ /\ FinalCode = kSuccess
                 /\ SubSeq(log, Len(log) - Len(SuccessTail) + 1, Len(log))
                      = SuccessTail
         ELSE FinalCode = kUpdatedButNotActive

\* A plan without download_url, whose two partitions both have a
\* post-install step, ended in kSuccess after the slot switch.
C25_Witness ==
  /\ install_plan_.download_url = ""
  /\ Len(install_plan_.partitions) = 2
  /\ \A i \in PlanPartitions : PlanPartition(i).run_postinstall
  /\ install_plan_.switch_slot_on_reboot
  /\ FinalCode = kSuccess
  /\ Count("SetActiveBootSlot") = 1

(***************************************************************************)
(* C26.  Paths with ".." components.                                       *)
(***************************************************************************)
RECURSIVE Components(_)
\* The components of a path: what its separators delimit, the empty ones
\* left out.
Components(path) ==
  IF path = <<>> THEN <<>>
  ELSE IF path[1] = "/" THEN Components(Tail(path))
  ELSE LET n == IF \E i \in 1..Len(path) : path[i] = "/"
                THEN (CHOOSE i \in 1..Len(path) :
                        /\ path[i] = "/"
                        /\ \A j \in 1..(i - 1) : path[j] # "/") - 1
                ELSE Len(path)
       IN <<SubSeq(path, 1, n)>> \o Components(SubSeq(path, n + 1, Len(path)))

RECURSIVE Collapsed(_, _)
\* The components an absolute path resolves to: a ".." component takes
\* away the one before it, if any.
Collapsed(done, rest) ==
  IF rest = <<>> THEN done
  ELSE IF rest[1] = <<".", ".">>
  THEN Collapsed(SubSeq(done, 1, Len(done) - 1), Tail(rest))
  ELSE Collapsed(Append(done, rest[1]), Tail(rest))

\* The path resolves to a location outside fs_mount_dir.
Escapes(path) ==
  LET to == Collapsed(<<>>, Components(path))
      dir == Components(fs_mount_dir_)
  IN ~(Len(to) >= Len(dir) /\ SubSeq(to, 1, Len(dir)) = dir)

\* C26: the script path handed to the child launcher never resolves, after
\* collapsing ".." components, to a location outside fs_mount_dir; when
\* the partition whose relative postinstall_path escapes the mount
\* directory has been mounted, the run ends with kPostinstallRunnerError
\* and no child is launched for it.
C26_NoEscapeFromMountDir ==
  \A k \in LogIdx :
    LET i == log[k].part
    IN /\ log[k].op = "ExecFlags"
            => ~Escapes(AbsPath(PlanPartition(i).postinstall_path))
       /\ (/\ log[k].op = "MountPartition" /\ log[k].rc = 1
           /\ PlanPartition(i).run_postinstall
           /\ Escapes(AbsPath(PlanPartition(i).postinstall_path))) =>
            /\ Completed
            /\ FinalCode = kPostinstallRunnerError

(***************************************************************************)
(* C27: on every exit path of the runner, when the completion code has     *)
(* been delivered or TerminateProcessing has returned, nothing the runner  *)
(* mounted is still mounted at fs_mount_dir.                               *)
(***************************************************************************)
C27_NothingMountedAtExit ==
  phase \in {"completed", "terminated"} => mounted = <<>>


(***************************************************************************)
(* C28: TerminateProcessing on a child stopped by SuspendAction sends the  *)
(* termination signal first and the continue signal after it, so that the  *)
(* stopped child can process the termination; when no SuspendAction is     *)
(* outstanding (is_current_command_suspended_ is false) no continue signal *)
(* is sent.                                                                *)
(***************************************************************************)
\* A TerminateProcessing step that found a child.
Terminating == phase # "terminated" /\ phase' = "terminated"

\* The child is stopped: the last signal delivered to it was the stop
\* signal of a SuspendAction.
ChildStopped == child.status = "stopped"

\* In log l, a call of op1 precedes a call of op2.
Precedes(l, op1, op2) ==
  \E i, j \in 1..Len(l) : i < j /\ l[i].op = op1 /\ l[j].op = op2

Called(l, op) == \E i \in 1..Len(l) : l[i].op = op

C28_TerminationThenResume ==
  [][Terminating =>
       /\ ChildStopped => Precedes(log', "KillExec", "ResumeAction")
       /\ ~is_current_command_suspended_ => ~Called(log', "ResumeAction")]_vars

\* The statement with the continue signal first.
C28_ResumeThenTermination ==
  [][Terminating =>
       /\ ChildStopped => Precedes(log', "ResumeAction", "KillExec")
       /\ ~ChildStopped => ~Called(log', "ResumeAction")]_vars

\* A stopped child was terminated and then continued.
C28_Witness ==
  /\ phase = "terminated"
  /\ Precedes(log, "KillExec", "ResumeAction")
  /\ \E i \in LogIdx : log[i].op = "ResumeAction" /\ log[i].rc = 1
  /\ child.term_pending = FALSE


(***************************************************************************)
(* C29: a partition without post-install step that names a                 *)
(* postinstall_path is mounted exactly once and no child is launched for   *)
(* it; when the unmount that follows the mount returns true that is the    *)
(* only unmount of its filesystem, and when it returns false the partition *)
(* is completed like a failed post-install step: Cleanup tries the unmount *)
(* again and the run ends with kPostinstallRunnerError unless the          *)
(* partition is optional.  A failed mount ends the run with                *)
(* kPostInstallMountError.  A partition without post-install step and      *)
(* without postinstall_path is never mounted.                              *)
(***************************************************************************)
\* The entries of log that are calls of op about partition i.
CallsOf(op, i) == {k \in LogIdx : log[k].op = op /\ log[k].part = i}

\* The partitions of the plan that have no post-install step.
SkippedPartitions == {i \in PlanPartitions : ~PlanPartition(i).run_postinstall}

\* The mount of partition i succeeded; and the unmount that follows it in
\* the skip loop returned true.
ProbeMounted(i) == \E k \in CallsOf("MountPartition", i) : log[k].rc = 1

ProbeUnmounted(i) ==
  \E k \in CallsOf("MountPartition", i) :
    /\ log[k].rc = 1
    /\ log[k + 1].op = "UnmountFilesystem"
    /\ log[k + 1].rc = 1

\* The skip loop has dealt with partition i.
ProbeDone(i) == i < current_partition_ \/ ProbeMounted(i)

\* What holds of a skipped partition whatever its unmount returns.
SkippedWithoutChild(i) ==
  /\ CallsOf("ExecFlags", i) = {}
  /\ PlanPartition(i).postinstall_path = <<>> => CallsOf("MountPartition", i) = {}
  /\ (\E k \in CallsOf("MountPartition", i) : log[k].rc = 0)
       => Completed /\ FinalCode = kPostInstallMountError
  /\ (PlanPartition(i).postinstall_path # <<>> /\ ProbeDone(i))
       => ProbeMounted(i) /\ Cardinality(CallsOf("MountPartition", i)) = 1

C29_SkippedPartitionProbedOnce ==
  \A i \in SkippedPartitions :
    /\ SkippedWithoutChild(i)
    /\ ProbeUnmounted(i) => Cardinality(CallsOf("UnmountFilesystem", i)) = 1
    /\ (ProbeMounted(i) /\ ~ProbeUnmounted(i)) =>
         /\ \E k \in CallsOf("MountPartition", i) :
              /\ log[k + 1].op = "UnmountFilesystem" /\ log[k + 1].rc = 0
              /\ log[k + 2].op = "UnmountFilesystem"
         /\ ~PlanPartition(i).postinstall_optional =>
              /\ Completed
              /\ FinalCode = kPostinstallRunnerError
              /\ current_partition_ = i

\* The statement with exactly one unmount in every case.
C29_SkippedPartitionUnmountedOnce ==
  \A i \in SkippedPartitions :
    /\ SkippedWithoutChild(i)
    /\ ProbeMounted(i) =>
         /\ Cardinality(CallsOf("UnmountFilesystem", i)) = 1
         /\ \A k \in CallsOf("UnmountFilesystem", i) : log[k].rc = 1

\* Two skipped partitions were dealt with, one mounted and unmounted once and
\* one never mounted, and the run went on to its end.
C29_Witness ==
  /\ Completed
  /\ \E i, j \in SkippedPartitions :
       /\ PlanPartition(i).postinstall_path # <<>>
       /\ ProbeUnmounted(i)
       /\ PlanPartition(j).postinstall_path = <<>>
       /\ j < current_partition_

\* The unmount of a skipped, required partition failed and ended the run.
C29_WitnessUnmountFailed ==
  /\ Completed
  /\ FinalCode = kPostinstallRunnerError
  /\ \E i \in SkippedPartitions : ProbeMounted(i) /\ ~ProbeUnmounted(i)


(***************************************************************************)
(* C30: the cursor current_partition_ never decreases and never exceeds    *)
(* the number of partitions of the plan; it moves only over partitions     *)
(* that have no post-install step or whose step has ended (the script      *)
(* exited or could not be launched), one position for each; it moves on    *)
(* past an optional partition whose script failed; and accumulated_weight_ *)
(* is the number of partitions before the cursor that have a post-install  *)
(* step, each of weight one.                                               *)
(***************************************************************************)
\* The entries that a step adds to log.
NewEntries == (Len(log) + 1)..Len(log')

\* The post-install step of partition i ended in this step: its script
\* exited, or could not be launched.
EndedInStep(i) ==
  \E k \in NewEntries :
    /\ log'[k].part = i
    /\ \/ log'[k].op = "ChildExited"
       \/ log'[k].op = "ExecFlags" /\ log'[k].rc = 0

\* The partitions before position n of list that have a post-install step.
RunBefore(list, n) == {i \in 0..(n - 1) : list[i + 1].run_postinstall}

C30_CursorMonotone ==
  [][/\ current_partition_' >= current_partition_
     /\ current_partition_' <= Len(install_plan_'.partitions)
     /\ \A i \in current_partition_..(current_partition_' - 1) :
          install_plan_'.partitions[i + 1].run_postinstall => EndedInStep(i)
     /\ \A k \in NewEntries :
          (/\ log'[k].op = "ChildExited"
           /\ log'[k].rc # 0
           /\ install_plan_'.partitions[log'[k].part + 1].postinstall_optional)
            => current_partition_' > log'[k].part
     /\ accumulated_weight_' =
          Cardinality(RunBefore(install_plan_'.partitions, current_partition_'))
    ]_vars

\* The script of the optional first partition failed and the cursor went on
\* to the end of a plan of two partitions, the second one skipped.
C30_Witness ==
  /\ Len(install_plan_.partitions) = 2
  /\ current_partition_ = 2
  /\ accumulated_weight_ = 1
  /\ PlanPartition(0).postinstall_optional
  /\ ~PlanPartition(1).run_postinstall
  /\ \E k \in LogIdx :
       log[k].op = "ChildExited" /\ log[k].part = 0 /\ log[k].rc # 0


(***************************************************************************)
(* C31: whenever ParsePayloadHeader returns Success, the stored major      *)
(* version lies between the smallest and the largest supported version;    *)
(* metadata_size_ is 24 + manifest_size_ without wrapping (so it is not    *)
(* below manifest_size_); metadata_size_ + metadata_signature_size_ does   *)
(* not wrap; and the major version, the manifest size and the metadata     *)
(* signature size are the big-endian values of bytes [4,12), [12,20) and   *)
(* [20,24) of the payload.                                                 *)
(***************************************************************************)
ParseSucceeded ==
  ParseReturned /\ returned.result = MetadataParseResult_kSuccess

C31_FieldsAfterSuccess ==
  ParseSucceeded =>
    /\ ~UnsignedLess(major_payload_version_,
                     Unsigned(kMinSupportedMajorPayloadVersion, 8))
    /\ ~UnsignedLess(Unsigned(kMaxSupportedMajorPayloadVersion, 8),
                     major_payload_version_)
    /\ ~Wraps(Unsigned(24, 8), manifest_size_)
    /\ metadata_size_ = UnsignedAdd(Unsigned(24, 8), manifest_size_)
    /\ ~UnsignedLess(metadata_size_, manifest_size_)
    /\ ~Wraps(metadata_size_, Widen(metadata_signature_size_, 8))
    /\ ~UnsignedLess(UnsignedAdd(metadata_size_,
                                 Widen(metadata_signature_size_, 8)),
                     metadata_size_)
    /\ major_payload_version_ = Field(4, 8)
    /\ manifest_size_ = Field(12, 8)
    /\ metadata_signature_size_ = Field(20, 4)

\* A header with a manifest size of 1 and a signature size of 231 was
\* parsed with success.
C31_Witness ==
  /\ ParseSucceeded
  /\ manifest_size_ = Unsigned(1, 8)
  /\ metadata_size_ = Unsigned(25, 8)
  /\ metadata_signature_size_ = <<0, 0, 0, 231>>


(***************************************************************************)
(* C32: a ParsePayloadHeader call that returns InsufficientData, or Error  *)
(* for a bad magic, leaves the four stored fields as they were.  A call    *)
(* that returns Error for an unsupported version has stored the decoded    *)
(* major version and nothing else; a call that returns Error for an        *)
(* invalid metadata size has stored the major version, the manifest size   *)
(* and the wrapped metadata size, and also the metadata signature size     *)
(* when it was the sum with the signature size that wrapped.               *)
(***************************************************************************)
\* A step in which ParsePayloadHeader returns something else than Success.
ParseFails ==
  /\ returned'.op = "ParsePayloadHeader"
  /\ returned'.result # MetadataParseResult_kSuccess

\* The parse of this step returned Error with the given code.
ParseFailsWith(code) ==
  /\ ParseFails
  /\ returned'.result = MetadataParseResult_kError
  /\ returned'.error = code

\* The given bytes of the payload parsed in this step.
FieldParsed(offset, size) ==
  SubSeq(returned'.payload, offset + 1, offset + size)

C32_FieldsAfterFailure ==
  [][/\ (ParseFails /\ returned'.result = MetadataParseResult_kInsufficientData)
          => UNCHANGED <<major_payload_version_, manifest_size_,
                         metadata_size_, metadata_signature_size_>>
     /\ ParseFailsWith(kDownloadInvalidMetadataMagicString)
          => UNCHANGED <<major_payload_version_, manifest_size_,
                         metadata_size_, metadata_signature_size_>>
     /\ ParseFailsWith(kUnsupportedMajorPayloadVersion)
          => /\ major_payload_version_' = FieldParsed(4, 8)
             /\ UNCHANGED <<manifest_size_, metadata_size_,
                            metadata_signature_size_>>
     /\ ParseFailsWith(kDownloadInvalidMetadataSize)
          => /\ major_payload_version_' = FieldParsed(4, 8)
             /\ manifest_size_' = FieldParsed(12, 8)
             /\ metadata_size_' = UnsignedAdd(Unsigned(24, 8), manifest_size_')
             /\ IF Wraps(Unsigned(24, 8), manifest_size_')
                THEN UNCHANGED metadata_signature_size_
                ELSE metadata_signature_size_' = FieldParsed(20, 4)
    ]_vars

\* The statement for every result other than Success.
C32_NoSideEffectsOnFailure ==
  [][ParseFails
       => UNCHANGED <<major_payload_version_, manifest_size_,
                      metadata_size_, metadata_signature_size_>>]_vars

\* A header of version 3 was refused and the version is stored.
C32_Witness ==
  /\ ParseReturned
  /\ ParseFailedWith(kUnsupportedMajorPayloadVersion)
  /\ major_payload_version_ = Unsigned(3, 8)
  /\ manifest_size_ = Unsigned(0, 8)


(***************************************************************************)
(* C33: however the bytes of the status pipe are split across the reads    *)
(* of at most BufSize bytes and across the readable events, the lines      *)
(* passed to ProcessProgressLine are exactly the newline-terminated lines  *)
(* of the bytes read, in order and each once; the bytes after the last     *)
(* line feed stay in progress_buffer_ and are not processed as a line.     *)
(***************************************************************************)
\* The positions of the line feeds of str, and the k-th of them (0 for
\* k = 0).
LineFeeds(str) == {i \in 1..Len(str) : str[i] = "\n"}

LineFeed(str, k) ==
  IF k = 0 THEN 0
  ELSE CHOOSE i \in LineFeeds(str) :
         Cardinality({j \in LineFeeds(str) : j <= i}) = k

\* The newline-terminated lines of str, without their line feeds, and the
\* bytes after the last of them.
TerminatedLines(str) ==
  [k \in 1..Cardinality(LineFeeds(str)) |->
     SubSeq(str, LineFeed(str, k - 1) + 1, LineFeed(str, k) - 1)]

Fragment(str) ==
  SubSeq(str, LineFeed(str, Cardinality(LineFeeds(str))) + 1, Len(str))

C33_LinesOfTheStream ==
  /\ lines_processed = TerminatedLines(bytes_read)
  /\ current_command_ # 0 => progress_buffer_ = Fragment(bytes_read)

\* A line and an unterminated byte were read: the line was processed and
\* the byte is kept.
C33_Witness ==
  /\ current_command_ # 0
  /\ bytes_read = <<"x", "\n", "x">>
  /\ lines_processed = <<<<"x">>>>
  /\ progress_buffer_ = <<"x">>
  /\ status_pipe = <<>>


(***************************************************************************)
(* C34: a line of the shape 'global_progress <v>' with v not NaN makes the *)
(* runner report (accumulated_weight_ + weight * frac) / total_weight_     *)
(* with frac = v when 0 <= v <= 1, frac = 0 when v < 0 or v is plus or     *)
(* minus infinity, and frac = 1 when v > 1; a line of any other shape, and *)
(* a line whose value is NaN, produces no report.                          *)
(***************************************************************************)
\* A step that is a readable event of the status pipe.
ProgressEvent == progress_controller_ /\ UNCHANGED <<log, child>>

\* The fraction, in units of 1/FracDen, that a value stands for.
FractionOf(v) ==
  CASE v.kind = "finite" /\ v.n < 0 -> 0
    [] v.kind = "finite" /\ v.n > FracDen -> FracDen
    [] v.kind = "finite" /\ v.n >= 0 /\ v.n <= FracDen -> v.n
    [] v.kind \in {"nan", "inf", "-inf"} -> 0

\* The event of this step makes the report for the value v.
ReportedFor(v) ==
  reports' = <<[num |-> accumulated_weight_ * FracDen
                          + partition_weight_[current_partition_ + 1]
                              * FractionOf(v),
                den |-> total_weight_ * FracDen]>>

C34_ReportOfEachLine ==
  [][ProgressEvent =>
       /\ partition_weight_[current_partition_ + 1] > 0
       /\ IF /\ returned'.line.kind = "global_progress"
             /\ returned'.line.frac.kind # "nan"
          THEN ReportedFor(returned'.line.frac)
          ELSE reports' = reports]_vars

\* The statement with NaN reported as 0.
C34_NaNReportedAsZero ==
  [][ProgressEvent =>
       /\ partition_weight_[current_partition_ + 1] > 0
       /\ IF returned'.line.kind = "global_progress"
          THEN ReportedFor(returned'.line.frac)
          ELSE reports' = reports]_vars

\* The last line read had an infinite value, and the value reported is the
\* weight accumulated before the second partition.
C34_Witness ==
  /\ returned.op = "OnProgressFdReady"
  /\ returned.line.frac.kind = "inf"
  /\ progress_controller_
  /\ current_partition_ = 1
  /\ reports = <<[num |-> FracDen, den |-> 2 * FracDen]>>

\* The last line read had the value NaN, and the value reported before it
\* stays.
C34_WitnessNaN ==
  /\ returned.op = "OnProgressFdReady"
  /\ returned.line.frac.kind = "nan"
  /\ progress_controller_
  /\ reports # <<>>
  /\ reports[1].num > accumulated_weight_ * FracDen


(***************************************************************************)
(* C35: whenever current_command_ is 0 no watcher of the status pipe is    *)
(* registered, progress_fd_ is -1 and progress_buffer_ is empty; while a   *)
(* child is current, the watcher, if registered, is on the pipe of that    *)
(* child and progress_buffer_ holds only bytes read from that pipe.  So    *)
(* no byte written by the child of one partition is parsed or reported    *)
(* for another partition.                                                  *)
(***************************************************************************)
\* str ends with tail.
EndsWith(str, tail) ==
  /\ Len(tail) <= Len(str)
  /\ SubSeq(str, Len(str) - Len(tail) + 1, Len(str)) = tail

C35_NoWatcherWithoutChild ==
  /\ current_command_ = 0 =>
       /\ ~progress_controller_
       /\ progress_fd_ = -1
       /\ progress_buffer_ = <<>>
  /\ current_command_ # 0 =>
       /\ current_command_ = child.pid
       /\ child.pid = current_partition_ + 1
       /\ progress_controller_ => progress_fd_ = child.pid
       /\ EndsWith(bytes_read, progress_buffer_)

\* The child of the first partition left an unterminated byte in the
\* buffer, and the child of the second partition runs with an empty one.
C35_Witness ==
  /\ current_partition_ = 1
  /\ current_command_ # 0
  /\ progress_controller_
  /\ progress_buffer_ = <<>>
  /\ bytes_read = <<>>
  /\ status_pipe = <<"\n">>
  /\ \E k \in LogIdx : log[k].op = "ChildExited" /\ log[k].part = 0

\* The run ended while the buffer held an unterminated byte, which is gone.
C35_WitnessCompleted ==
  /\ Completed
  /\ current_command_ = 0
  /\ Fragment(bytes_read) # <<>>
  /\ progress_buffer_ = <<>>


(***************************************************************************)
(* C36: is_current_command_suspended_ is true only if a child is current   *)
(* and the last signal the runner delivered to it was the stop signal (a   *)
(* child that runs has not been sent the stop signal last); in particular  *)
(* the flag is false whenever current_command_ is 0, and it is false when  *)
(* a new child has just been launched.                                     *)
(***************************************************************************)
C36_SuspendedOnlyAfterStop ==
  is_current_command_suspended_ =>
    /\ current_command_ # 0
    /\ child.status # "running"

\* SuspendAction and ResumeAction change nothing when no child is current:
\* no step taken with current_command_ = 0 changes the flag or stops or
\* continues a child.
C36_NoEffectWithoutChild ==
  [][current_command_ = 0 =>
       /\ UNCHANGED is_current_command_suspended_
       /\ (child'.status = "stopped") <=> (child.status = "stopped")]_vars


(***************************************************************************)
(* C37: postinstall_optional covers only the script's exit code.  When the *)
(* mount of a partition with run_postinstall = true fails, the run ends    *)
(* with kPostInstallMountError, also for a postinstall_optional partition: *)
(* no child is launched for the partition and no later partition is        *)
(* processed.                                                              *)
(***************************************************************************)
\* Entry k of log is the failed mount of a partition that has a
\* post-install step.
RunMountFailedAt(k) ==
  /\ log[k].op = "MountPartition"
  /\ log[k].rc = 0
  /\ PlanPartition(log[k].part).run_postinstall

C37_MountFailureEndsRun ==
  \A k \in LogIdx :
    RunMountFailedAt(k) =>
      /\ Completed
      /\ FinalCode = kPostInstallMountError
      /\ current_command_ = 0
      /\ \A j \in LogIdx :
           /\ log[j].op = "ExecFlags" => log[j].part # log[k].part
           /\ log[j].op \in {"MountPartition", "ExecFlags"} =>
                log[j].part <= log[k].part
           /\ j > k => log[j].op \in {"CancelPowerwash", "ActionComplete"}

\* The mount of a postinstall_optional partition that has a post-install
\* step failed, and the plan has a partition after it.
C37_Witness ==
  \E k \in LogIdx :
    /\ RunMountFailedAt(k)
    /\ PlanPartition(log[k].part).postinstall_optional
    /\ log[k].part + 1 \in PlanPartitions
    /\ Completed


(***************************************************************************)
(* C38: in the completion of a plan with switch_slot_on_reboot = true,     *)
(* SetActiveBootSlot is not called when FinishUpdate returned false; when  *)
(* FinishUpdate or SetActiveBootSlot returned false the final code is      *)
(* kPostinstallRunnerError, SetWarmReset and                               *)
(* SetVbmetaDigestForInactiveSlot are not called, and a scheduled          *)
(* powerwash is cancelled.                                                 *)
(***************************************************************************)
\* Entry k of log is a call of op that returned false.
FailedAt(op, k) == log[k].op = op /\ log[k].rc = 0

\* A powerwash that was scheduled is cancelled after entry k of log.
CancelledAfter(k) ==
  powerwash_scheduled_ =>
    /\ Count("CancelPowerwash") = 1
    /\ \E j \in LogIdx : j > k /\ log[j].op = "CancelPowerwash"

C38_FailedSlotSwitch ==
  \A k \in LogIdx :
    /\ FailedAt("FinishUpdate", k) => Count("SetActiveBootSlot") = 0
    /\ FailedAt("FinishUpdate", k) \/ FailedAt("SetActiveBootSlot", k) =>
         /\ install_plan_.switch_slot_on_reboot
         /\ Completed
         /\ FinalCode = kPostinstallRunnerError
         /\ Count("SetWarmReset") = 0
         /\ Count("SetVbmetaDigestForInactiveSlot") = 0
         /\ CancelledAfter(k)

\* FinishUpdate returned false in the completion of a plan whose powerwash
\* was scheduled.
C38_Witness ==
  /\ \E k \in LogIdx : FailedAt("FinishUpdate", k)
  /\ powerwash_scheduled_
  /\ Count("CancelPowerwash") = 1

\* SetActiveBootSlot returned false after FinishUpdate returned true, with a
\* powerwash scheduled.
C38_WitnessSetActiveFailed ==
  /\ \E k \in LogIdx : FailedAt("SetActiveBootSlot", k)
  /\ Count("FinishUpdate") = 1
  /\ powerwash_scheduled_


(***************************************************************************)
(* C39: a script that cannot be launched (ExecFlags returns 0) is handled  *)
(* exactly like a script that exits with code 1: the filesystem of the     *)
(* partition is unmounted (UnmountFilesystem is the next call), no watcher *)
(* of the partition's status descriptor is registered, and the run ends    *)
(* with kPostinstallRunnerError for a required partition or continues      *)
(* with the next partition for a postinstall_optional one.                 *)
(***************************************************************************)
\* Entry k of log is a launch of partition i that returned process id 0.
LaunchFailedAt(k) == log[k].op = "ExecFlags" /\ log[k].rc = 0

\* Entry k of log is the exit of a script with code 1.
ExitedOneAt(k) == log[k].op = "ChildExited" /\ log[k].rc = 1

\* No child of partition i is current, and no watcher of its status
\* descriptor is registered.
NoWatcherOf(i) ==
  /\ current_command_ # i + 1
  /\ ~(progress_controller_ /\ progress_fd_ = i + 1)

\* The run ended with kPostinstallRunnerError right after the unmount that
\* follows entry k of log.
RunEndedAfter(k) ==
  /\ Completed
  /\ FinalCode = kPostinstallRunnerError
  /\ \A j \in LogIdx :
       j > k + 1 => log[j].op \in {"CancelPowerwash", "ActionComplete"}

\* The run went on after the unmount that follows entry k of log: the
\* cursor is past partition log[k].part, and the next call, after the
\* unmounts that a mount starts with, is the mount of a later partition or
\* belongs to the completion of a run whose steps succeeded.
RunContinuedAfter(k) ==
  /\ current_partition_ > log[k].part
  /\ \E j \in LogIdx :
       /\ j > k + 1
       /\ \A h \in (k + 2)..(j - 1) : log[h].op = "UnmountFilesystem"
       /\ \/ /\ log[j].op = "MountPartition"
             /\ log[j].part > log[k].part
          \/ log[j].op = "FinishUpdate"
          \/ /\ log[j].op = "ActionComplete"
             /\ log[j].code = kUpdatedButNotActive

\* What the code does after the failure of partition log[k].part recorded
\* at entry k of log.
FailureHandledAt(k) ==
  /\ Len(log) > k
  /\ log[k + 1].op = "UnmountFilesystem"
  /\ NoWatcherOf(log[k].part)
  /\ IF PlanPartition(log[k].part).postinstall_optional
     THEN RunContinuedAfter(k)
     ELSE RunEndedAfter(k)

C39_LaunchFailureLikeExitOne ==
  \A k \in LogIdx :
    /\ LaunchFailedAt(k) =>
         /\ FailureHandledAt(k)
         /\ ~LaunchedBefore(log[k].part, Len(log) + 1)
    /\ ExitedOneAt(k) => FailureHandledAt(k)

\* The launch failed on a postinstall_optional partition and the script of
\* the next partition runs.
C39_Witness ==
  \E k \in LogIdx :
    /\ LaunchFailedAt(k)
    /\ PlanPartition(log[k].part).postinstall_optional
    /\ current_command_ # 0

\* The launch failed on a required partition.
C39_WitnessRequired ==
  \E k \in LogIdx :
    /\ LaunchFailedAt(k)
    /\ ~PlanPartition(log[k].part).postinstall_optional

\* A script exited with code 1.
C39_WitnessExited ==
  \E k \in LogIdx : ExitedOneAt(k)


(***************************************************************************)
(* C40: when every launched script exits and the loop runs its exit        *)
(* callback, and the action is not terminated, an action that was started  *)
(* delivers a completion code, whatever the mix of skipped, optional,      *)
(* failing and succeeding partitions of the plan: the partition loop does  *)
(* not stall.                                                              *)
(***************************************************************************)
C40_RunCompletes == (phase = "running") ~> Completed

\* The partition loop does not go back: no partition is launched twice,
\* and the cursor never decreases.
C40_NoPartitionRevisited ==
  /\ \A i \in PlanPartitions :
       Cardinality({k \in LogIdx : log[k].op = "ExecFlags" /\ log[k].part = i}) <= 1
  /\ \A j, k \in LogIdx :
       (j < k /\ {log[j].op, log[k].op} \subseteq {"MountPartition", "ExecFlags"})
         => log[j].part <= log[k].part

\* A run of two scripts, the first of which failed on a postinstall_optional
\* partition, delivered its completion code.
C40_Witness ==
  /\ Completed
  /\ Len(install_plan_.partitions) = 2
  /\ \E k \in LogIdx :
       /\ log[k].op = "ChildExited"
       /\ log[k].part = 0
       /\ log[k].rc # 0
  /\ \E k \in LogIdx : log[k].op = "ChildExited" /\ log[k].part = 1

====
